---- MODULE Spec2Model ----
(***************************************************************************)
(* A model of the fantasyanalytics sync pipeline (sync/yahoo_sync.py), of  *)
(* the SQLite wrapper it writes through (db/database.py) and of the        *)
(* standings fold of the aggregation engine (analytics/teams.py).          *)
(*                                                                         *)
(* The store is a record of tables.  Database keeps two copies of it: disk *)
(* (what is committed) and conn (what the open connection sees, committed  *)
(* or not).  A sync unit is one operator that threads the database through *)
(* the writes of the unit, in the order of the code; the exceptions that   *)
(* the external source or a write can raise are inputs of the unit.        *)
(***************************************************************************)
EXTENDS Integers, Sequences, FiniteSets, TLC

VARIABLES db, src, run, pc, wk, hi, ks, ev, ret, base, faults,
          scopes, reg, teamRows, matchRows, through, table, arg, res

vars == <<db, src, run, pc, wk, hi, ks, ev, ret, base, faults,
          scopes, reg, teamRows, matchRows, through, table, arg, res>>

syncVars == <<db, src, run, pc, wk, hi, ks, ev, ret, base, faults>>
runVars == <<src, run, pc, wk, hi, ks, ev, ret, base, faults>>
dbVars == <<scopes, reg>>
standVars == <<teamRows, matchRows, through, table>>
fnVars == <<arg, res>>

----------------------------------------------------------------------------
(* Bounds of the model.                                                    *)

\* Weeks the source reports and serves: 1..MaxWeek.
MaxWeek == 3
\* Teams of a league (league.num_teams).
NumTeams == 2
\* Exceptions (failed fetches, failed writes) in one behaviour.
MaxFaults == 1
MaxDepth == 3
NumKeys == 3
MaxMatchups == 2
\* Managers and matchup rows of the streak scan.
NumManagers == 4
MaxResults == 4
\* Seasons, players and keeper rows of the keeper lineage.
MaxSeasons == 4
NumPlayers == 2
MaxKeepers == 4
\* Players of the draft.
NumDrafted == 3
\* Roster rows of the week of a ranking.
NumStarters == 3
\* Stat categories of a league and the greatest stat value.
NumCats == 2
MaxStat == 2
\* Picks of a draft, keepers a team may keep (keepers_per_team), flagged keepers.
MaxPicks == 6
KeepersPerTeam == 2
MaxFlagged == 4
\* Runs of sync_standings.
MaxRuns == 1

Weeks == 1..MaxWeek
Teams == 1..NumTeams
\* The transactions the source lists: transaction n is dated day n, one
\* for each week and one after the last week.
NumTxns == MaxWeek + 1
Txns == 1..NumTxns

\* The configured seasons (franchise.seasons); the latest one is the league
\* the season and incremental syncs work on.
Leagues == {1, 2}
Latest == 2

----------------------------------------------------------------------------
(* The store: tables of rows.                                              *)

NoRow == [present |-> FALSE]

LogKey(lg, unit, week) == <<lg, unit, week>>

LogKeys ==
    {LogKey(Latest, u, 0) : u \in {"metadata", "draft", "transactions"}}
    \cup {LogKey(Latest, "weekly", w) : w \in Weeks}
    \cup {LogKey(lg, "keepers", 0) : lg \in Leagues}

NoLog == [status |-> "none", error |-> FALSE]

\* An empty store, as Database.initialize leaves it.
EmptyStore ==
    [log    |-> [k \in LogKeys |-> NoLog],
     league |-> [lg \in Leagues |-> NoRow],
     rows   |-> {},
     txweek |-> [t \in Txns |-> 0]]

\* The key of a row: its table, its league and up to two more key columns.
Id(kind, lg, a, b) == <<kind, lg, a, b>>

\* A write statement applied to a store.
Apply(s, w) ==
    CASE w.t = "row"      -> [s EXCEPT !.rows = @ \cup {w.id}]
      [] w.t = "league"   -> [s EXCEPT !.league[w.lg] = w.val]
      [] w.t = "weeks"    ->
            IF s.league[w.lg].present
            THEN [s EXCEPT !.league[w.lg].start_week = w.start,
                           !.league[w.lg].end_week = w.end,
                           !.league[w.lg].current_week = w.cur]
            ELSE s
      [] w.t = "playoff"  ->
            IF s.league[w.lg].present
            THEN [s EXCEPT !.league[w.lg].playoff_start_week = w.val]
            ELSE s
      [] w.t = "logstart" ->
            [s EXCEPT !.log[w.key] = [status |-> "running", error |-> FALSE]]
      [] w.t = "logdone"  ->
            IF s.log[w.key].status = "none" THEN s
            ELSE [s EXCEPT !.log[w.key].status = "completed"]
      [] w.t = "logfail"  ->
            IF s.log[w.key].status = "none" THEN s
            ELSE [s EXCEPT !.log[w.key] = [status |-> "failed", error |-> TRUE]]
      [] w.t = "logdel"   -> [s EXCEPT !.log[w.key] = NoLog]
      [] w.t = "enrich"   ->
            LET drafted(x) == Id("draft_pick", x[2], x[3], 0) \in s.rows
                hit == {x \in s.rows : x[1] = "keeper" /\ x[2] = w.lg /\ drafted(x)}
            IN  [s EXCEPT !.rows = (@ \ hit) \cup {Id("keeper", x[2], x[3], 1) : x \in hit}]
      [] w.t = "txn"      ->
            [s EXCEPT !.rows = @ \cup {w.id}, !.txweek[w.id[3]] = 0]
      [] w.t = "txweek"   ->
            IF Id("txn", w.lg, w.txn, 0) \in s.rows
            THEN [s EXCEPT !.txweek[w.txn] = w.week]
            ELSE s
      [] w.t = "standing" ->
            IF s.team[<<w.lg, w.team>>].present
            THEN [s EXCEPT !.team[<<w.lg, w.team>>].finish = w.finish,
                           !.team[<<w.lg, w.team>>].playoff_seed = w.seed]
            ELSE s

----------------------------------------------------------------------------
(* Database: execute and the transaction scope.                            *)

NewDb == [disk |-> EmptyStore, conn |-> EmptyStore, in_transaction |-> FALSE]

commit(d) == [d EXCEPT !.disk = d.conn]

rollback(d) == [d EXCEPT !.conn = d.disk]

\* A variant of execute that commits inside a transaction scope too.
ExecuteCommits(d, w) == commit([d EXCEPT !.conn = Apply(d.conn, w)])

\* Database.execute: the statement runs on the connection and is committed
\* at once unless a transaction scope is open.
execute(d, w) ==
    LET d1 == [d EXCEPT !.conn = Apply(d.conn, w)]
    IN  IF ~d1.in_transaction THEN commit(d1) ELSE d1

\* Entering a transaction() scope.  The scope is the outermost one when
\* the flag was clear; an inner scope joins it.
TxOuter(d) == ~d.in_transaction

TxEnter(d) == IF d.in_transaction THEN d ELSE [d EXCEPT !.in_transaction = TRUE]

\* A variant of the normal exit in which every scope commits.
TxExitCommits(d, outer) == [commit(d) EXCEPT !.in_transaction = FALSE]

\* Leaving a scope normally: the outermost scope commits and clears the flag.
TxExit(d, outer) ==
    IF outer THEN [commit(d) EXCEPT !.in_transaction = FALSE] ELSE d

\* Leaving a scope by an exception: the outermost scope rolls back and
\* clears the flag, the exception goes on.
TxAbort(d, outer) ==
    IF outer THEN [rollback(d) EXCEPT !.in_transaction = FALSE] ELSE d

RECURSIVE ExecAll(_, _)
ExecAll(d, ws) ==
    IF ws = <<>> THEN d
    ELSE CHOOSE r \in {ExecAll(d1, rest) : d1 \in {execute(d, Head(ws))},
                                          rest \in {Tail(ws)}} : TRUE

----------------------------------------------------------------------------
(* The sync log.                                                           *)

\* Variants of _is_synced: one that never finds the row, one that takes a
\* 'failed' row for a synced unit.
IsSyncedNever(d, key) == d.conn.log[key].status = "complete"

IsSyncedOrFailed(d, key) == d.conn.log[key].status \in {"completed", "failed"}

_is_synced(d, key) == d.conn.log[key].status = "completed"

_log_start(d, key) == execute(d, [t |-> "logstart", key |-> key])

\* A variant of the closing UPDATE that leaves the status 'running'.
LogStillRunning(key) == [t |-> "logstart", key |-> key]

\* The UPDATE of _log_complete.
LogDone(key) == [t |-> "logdone", key |-> key]

_log_complete(d, key) == execute(d, LogDone(key))

\* A variant of _log_fail that leaves the log row as it is.
LogFailDropped(d, key) == d

_log_fail(d, key) == execute(d, [t |-> "logfail", key |-> key])

Row(id) == [t |-> "row", id |-> id]

RowIds(ws) ==
    {ws[i].id : i \in {j \in 1..Len(ws) : ws[j].t \in {"row", "txn"}}}

\* What a unit operation reports: the database it leaves, how it ended
\* ("skip", "done", "raise": the exception left the operation, "fail": the
\* unit failed and the exception was swallowed), the external calls it
\* made, whether a write raised, and the rows, new to the store, that the
\* attempt had written when a write raised.
Result(d, outcome, calls, wraised, wrote) ==
    [db |-> d, outcome |-> outcome, calls |-> calls,
     wraised |-> wraised, wrote |-> wrote]

NoFault == [kind |-> "none", at |-> 0]

\* A variant of the unit that swallows its exception after _log_fail.
FetchThenWriteSwallowed(d, key, ncalls, writes, fault) ==
    IF d.conn.log[key].status = "completed" THEN Result(d, "skip", 0, FALSE, {})
    ELSE
      LET d1 == execute(d, [t |-> "logstart", key |-> key])
          ws == writes \o <<LogDone(key)>>
          failed == [t |-> "logfail", key |-> key]
      IN  IF fault.kind = "fetch"
          THEN Result(execute(d1, failed), "fail", fault.at, FALSE, {})
          ELSE IF fault.kind = "write"
          THEN Result(execute(TxAbort(ExecAll(TxEnter(d1),
                                              SubSeq(ws, 1, fault.at - 1)),
                                      TxOuter(d1)), failed),
                      "fail", ncalls, TRUE, {})
          ELSE Result(TxExit(ExecAll(TxEnter(d1), ws), TxOuter(d1)), "done",
                      ncalls, FALSE, {})

\* A unit whose fetches come first and whose writes are one transaction
\* scope ending with _log_complete (metadata, draft, transactions).
\* fault.kind = "fetch": external call number fault.at raises;
\* fault.kind = "write": write number fault.at of the scope raises.
FetchThenWrite(d, key, ncalls, writes, fault) ==
    IF _is_synced(d, key) THEN Result(d, "skip", 0, FALSE, {})
    ELSE
      LET d1 == _log_start(d, key)
          ws == writes \o <<LogDone(key)>>
      IN  IF fault.kind = "fetch"
          THEN Result(_log_fail(d1, key), "raise", fault.at, FALSE, {})
          ELSE
            LET outer == TxOuter(d1)
                d2 == TxEnter(d1)
            IN  IF fault.kind = "write"
                THEN LET pre == SubSeq(ws, 1, fault.at - 1)
                         d3 == TxAbort(ExecAll(d2, pre), outer)
                     IN  Result(_log_fail(d3, key), "raise", ncalls, TRUE,
                                RowIds(pre) \ d.disk.rows)
                ELSE Result(TxExit(ExecAll(d2, ws), outer), "done", ncalls,
                            FALSE, {})

FetchFaults(ncalls) == {[kind |-> "fetch", at |-> i] : i \in 1..ncalls}

WriteFaults(nwrites) == {[kind |-> "write", at |-> i] : i \in 1..nwrites}

----------------------------------------------------------------------------
(* sync_metadata.                                                          *)

\* The league row sync_metadata stores, from the week data the source
\* reports (0 stands for a missing or zero value).
LeagueRow(s) ==
    LET swap == s.start_week # 0 /\ s.end_week # 0 /\ s.start_week > s.end_week
        start1 == IF swap THEN s.end_week ELSE s.start_week
        end1 == IF swap THEN s.start_week ELSE s.end_week
        cur1 == IF s.is_finished = 1 /\ end1 # 0 THEN end1 ELSE s.current_week
        est == s.playoff_start_week # 0
               /\ (end1 = 0 \/ end1 < s.playoff_start_week)
        end2 == IF est THEN s.playoff_start_week + 2 ELSE end1
        cur2 == IF est /\ s.is_finished = 1 THEN end2 ELSE cur1
    IN  [present |-> TRUE, current_week |-> cur2, start_week |-> start1,
         end_week |-> end2, playoff_start_week |-> s.playoff_start_week,
         is_finished |-> s.is_finished]

MetadataWrites(lg, s) ==
    <<[t |-> "league", lg |-> lg, val |-> LeagueRow(s)],
      Row(Id("stat_category", lg, 0, 0)),
      Row(Id("team", lg, 0, 0))>>

MetadataCalls == 4

sync_metadata(d, lg, s, fault) ==
    FetchThenWrite(d, LogKey(lg, "metadata", 0), MetadataCalls,
                   MetadataWrites(lg, s), fault)

MetadataFaults == {NoFault} \cup FetchFaults(MetadataCalls) \cup WriteFaults(4)

----------------------------------------------------------------------------
(* sync_draft.                                                             *)

DraftWrites(lg) == [t \in Teams |-> Row(Id("draft_pick", lg, t, 0))]

sync_draft(d, lg, fault) ==
    FetchThenWrite(d, LogKey(lg, "draft", 0), 1, DraftWrites(lg), fault)

DraftFaults == {NoFault} \cup FetchFaults(1) \cup WriteFaults(NumTeams + 1)

----------------------------------------------------------------------------
(* sync_transactions.                                                      *)

\* INSERT OR REPLACE stores the transaction with a null week.
TransactionWrites(lg) ==
    [n \in Txns |-> [t |-> "txn", id |-> Id("txn", lg, n, 0)]]

sync_transactions(d, lg, fault) ==
    FetchThenWrite(d, LogKey(lg, "transactions", 0), 1,
                   TransactionWrites(lg), fault)

TransactionFaults ==
    {NoFault} \cup FetchFaults(1) \cup WriteFaults(NumTxns + 1)

----------------------------------------------------------------------------
(* sync_week.                                                              *)

\* The scoreboard of a week as the source serves it: one pairing, flagged
\* playoff from the playoff start week the source reports.
ScoreboardPlayoff(s, w) ==
    IF s.playoff_start_week # 0 /\ w >= s.playoff_start_week THEN 1 ELSE 0

MatchupRow(lg, s, w) == Row(Id("matchup", lg, w, ScoreboardPlayoff(s, w)))

NoWrite == <<"none", 0>>

\* The exceptions of one sync_week call: sb, the scoreboard fetch raises;
\* stat and roster, the teams whose stat fetch and roster fetch raise;
\* write, the write that raises.
NoWeekFault == [sb |-> FALSE, stat |-> {}, roster |-> {}, write |-> NoWrite]

\* A variant of loop 2 that stops at the first team whose fetch raises.
StatWritesUntilFailure(lg, w, f) ==
    LET all == [t \in Teams |-> Row(Id("team_weekly_score", lg, w, t))]
        Kept(x) == \A t \in f.stat : x.id[4] < t
    IN  SelectSeq(all, Kept)

\* Loop 2: a team's stat rows are written when its fetch and its write
\* went through.
StatWrites(lg, w, f) ==
    LET all == [t \in Teams |-> Row(Id("team_weekly_score", lg, w, t))]
        Kept(x) == x.id[4] \notin f.stat /\ f.write # <<"stat", x.id[4]>>
    IN  SelectSeq(all, Kept)

\* Loop 3: per team the weekly_roster row, then the player_weekly_stat row.
RosterWrites(lg, w, f) ==
    LET all == [i \in 1..(2 * NumTeams) |->
                  IF i % 2 = 1
                  THEN Row(Id("weekly_roster", lg, w, (i + 1) \div 2))
                  ELSE Row(Id("player_weekly_stat", lg, w, i \div 2))]
        Kept(x) ==
            /\ x.id[4] \notin f.roster
            /\ f.write # <<"roster", x.id[4]>>
            /\ ~(x.id[1] = "player_weekly_stat" /\ f.write = <<"pstat", x.id[4]>>)
    IN  SelectSeq(all, Kept)

WeekCalls == 1 + 2 * NumTeams

sync_week(d, lg, s, w, f) ==
    LET key == LogKey(lg, "weekly", w) IN
    IF _is_synced(d, key) THEN Result(d, "skip", 0, FALSE, {})
    ELSE
      LET d1 == _log_start(d, key)
          outer == TxOuter(d1)
          loop2 == <<MatchupRow(lg, s, w)>> \o StatWrites(lg, w, f)
          loop3 == loop2 \o <<Row(Id("matchup_category", lg, w, 0))>>
                         \o RosterWrites(lg, w, f)
          Raise(pre, calls, wr) ==
              Result(_log_fail(TxAbort(ExecAll(TxEnter(d1), pre), outer), key),
                     "raise", calls, wr,
                     IF wr THEN RowIds(pre) \ d.disk.rows ELSE {})
          inner == f.write[1] \in {"stat", "roster", "pstat"}
      IN  CASE f.sb                       -> Raise(<<>>, 1, FALSE)
            [] f.write = <<"matchup", 0>> -> Raise(<<>>, 1, TRUE)
            [] f.write = <<"mcat", 0>>    -> Raise(loop2, 1 + NumTeams, TRUE)
            [] f.write = <<"done", 0>>    -> Raise(loop3, WeekCalls, TRUE)
            [] OTHER ->
                 Result(TxExit(ExecAll(TxEnter(d1), loop3 \o <<LogDone(key)>>),
                               outer),
                        "done", WeekCalls, inner,
                        IF inner THEN RowIds(loop3) \ d.disk.rows ELSE {})

\* The exceptions a sync_week call can meet, at most n of them.  A write
\* raises only where the code gets to it.
WeekFaults(n) ==
    LET writes == {NoWrite, <<"matchup", 0>>, <<"mcat", 0>>, <<"done", 0>>}
                  \cup {<<k, t>> : k \in {"stat", "roster", "pstat"}, t \in Teams}
        Count(f) == (IF f.sb THEN 1 ELSE 0) + Cardinality(f.stat)
                    + Cardinality(f.roster) + (IF f.write = NoWrite THEN 0 ELSE 1)
        Reached(f) ==
            /\ f.sb => f.stat = {} /\ f.roster = {} /\ f.write = NoWrite
            /\ f.write = <<"matchup", 0>> => f.stat = {} /\ f.roster = {}
            /\ f.write = <<"mcat", 0>> => f.roster = {}
            /\ f.write[1] = "stat" => f.write[2] \notin f.stat
            /\ f.write[1] \in {"roster", "pstat"} => f.write[2] \notin f.roster
    IN  {f \in [sb : BOOLEAN, stat : SUBSET Teams, roster : SUBSET Teams,
                write : writes] : Count(f) <= n /\ Reached(f)}

WeekFaultCount(f) ==
    (IF f.sb THEN 1 ELSE 0) + Cardinality(f.stat) + Cardinality(f.roster)
    + (IF f.write = NoWrite THEN 0 ELSE 1)

----------------------------------------------------------------------------
(* _backfill_transaction_weeks and _repair_league_weeks.                   *)

\* The weeks of the matchups that are neither playoff nor consolation.
RegularWeeks(s, lg) ==
    {id[3] : id \in {x \in s.rows : x[1] = "matchup" /\ x[2] = lg /\ x[4] = 0}}

MatchupWeeks(s, lg) ==
    {id[3] : id \in {x \in s.rows : x[1] = "matchup" /\ x[2] = lg}}

PlayoffWeeks(s, lg) ==
    {id[3] : id \in {x \in s.rows : x[1] = "matchup" /\ x[2] = lg /\ x[4] = 1}}

Min(S) == CHOOSE x \in S : \A y \in S : x <= y
Max(S) == CHOOSE x \in S : \A y \in S : x >= y

\* Transaction n is dated day n and week w ends on day w: the first week
\* whose end is on or after the date, or the last week known.
AssignedWeek(weeks, n) ==
    IF \E w \in weeks : n <= w THEN Min({w \in weeks : n <= w}) ELSE Max(weeks)

BackfillWrites(s, lg, weeks) ==
    LET all == [n \in Txns |->
                  [t |-> "txweek", lg |-> lg, txn |-> n,
                   week |-> AssignedWeek(weeks, n)]]
        Null(x) == Id("txn", lg, x.txn, 0) \in s.rows /\ s.txweek[x.txn] = 0
    IN  SelectSeq(all, Null)

_backfill_transaction_weeks(d, lg) ==
    LET weeks == MatchupWeeks(d.conn, lg)
        ws == IF weeks = {} THEN <<>> ELSE BackfillWrites(d.conn, lg, weeks)
    IN  IF ws = <<>> THEN d
        ELSE LET outer == TxOuter(d)
             IN  TxExit(ExecAll(TxEnter(d), ws), outer)

\* The week of the current_week column the repair writes: the last matchup
\* week of a finished season, the stored end week of an unfinished one.
RepairCurrent(league, end_w) ==
    IF league.is_finished = 1 THEN end_w ELSE league.end_week

_repair_league_weeks(d, lg) ==
    LET weeks == MatchupWeeks(d.conn, lg)
        league == d.conn.league[lg]
    IN  IF weeks = {} \/ ~league.present THEN d
        ELSE
          LET start_w == Min(weeks)
              end_w == Max(weeks)
              playoff == PlayoffWeeks(d.conn, lg)
              needs_fix == league.start_week # start_w \/ league.end_week # end_w
              d1 == execute(d, [t |-> "weeks", lg |-> lg, start |-> start_w,
                                end |-> end_w,
                                cur |-> RepairCurrent(league, end_w)])
          IN  IF ~needs_fix THEN d
              ELSE IF playoff = {} THEN d1
              ELSE execute(d1, [t |-> "playoff", lg |-> lg, val |-> Min(playoff)])

----------------------------------------------------------------------------
(* The keepers unit of one season (the body of the loop of sync_keepers). *)
(* The franchise modelled is a baseball one: the draft fallback of        *)
(* basketball is not taken.                                                *)

NoKeeperFault == [roster |-> {}, write |-> NoWrite]

\* Every roster holds one player flagged as kept; a team's keeper row is
\* written when its roster fetch and its insert went through.
KeeperWrites(lg, f) ==
    LET all == [t \in Teams |-> Row(Id("keeper", lg, t, 0))]
        Kept(x) == x.id[3] \notin f.roster /\ f.write # <<"keeper", x.id[3]>>
    IN  SelectSeq(all, Kept)

sync_keepers_season(d, lg, f) ==
    LET key == LogKey(lg, "keepers", 0) IN
    IF _is_synced(d, key) \/ ~d.conn.league[lg].present
    THEN Result(d, "skip", 0, FALSE, {})
    ELSE
      LET d1 == _log_start(d, key)
          outer == TxOuter(d1)
          inserts == KeeperWrites(lg, f)
          enriched == IF Len(inserts) > 0
                      THEN inserts \o <<[t |-> "enrich", lg |-> lg]>>
                      ELSE inserts
          Fail(pre) ==
              Result(_log_fail(TxAbort(ExecAll(TxEnter(d1), pre), outer), key),
                     "fail", NumTeams, TRUE, RowIds(pre) \ d.disk.rows)
          inner == f.write[1] = "keeper"
      IN  CASE f.write = <<"enrich", 0>> -> Fail(inserts)
            [] f.write = <<"done", 0>>   -> Fail(enriched)
            [] OTHER ->
                 Result(TxExit(ExecAll(TxEnter(d1), enriched \o <<LogDone(key)>>),
                               outer),
                        "done", NumTeams, inner,
                        IF inner
                        THEN {Id("keeper", lg, x[3], b) :
                                 x \in RowIds(inserts), b \in {0, 1}} \ d.disk.rows
                        ELSE {})

KeeperFaultCount(f) ==
    Cardinality(f.roster) + (IF f.write = NoWrite THEN 0 ELSE 1)

KeeperFaults(n) ==
    LET writes == {NoWrite, <<"enrich", 0>>, <<"done", 0>>}
                  \cup {<<"keeper", t>> : t \in Teams}
        Reached(f) ==
            /\ f.write[1] = "keeper" => f.write[2] \notin f.roster
            /\ f.write = <<"enrich", 0>> => Len(KeeperWrites(Latest, f)) > 0
    IN  {f \in [roster : SUBSET Teams, write : writes] :
            KeeperFaultCount(f) <= n /\ Reached(f)}

----------------------------------------------------------------------------
(* The state of a run.                                                     *)

\* The last unit operation invoked and how it went: the status of its
\* log row when it was invoked, whether it called the source, whether a
\* fetch of the unit as a whole raised, whether a write raised, whether
\* rows the attempt had written when a write raised are in the committed
\* store afterwards, and the teams whose stat and roster fetch raised.
Event(unit, lg, week, was, r, fetch, stat, roster) ==
    [unit |-> unit, lg |-> lg, week |-> week, was |-> was,
     outcome |-> r.outcome, called |-> r.calls > 0, fraised |-> fetch,
     wraised |-> r.wraised, leaked |-> r.wrote \cap r.db.disk.rows # {},
     stat |-> stat, roster |-> roster]

NoEvent ==
    [unit |-> "none", lg |-> 0, week |-> 0, was |-> "none",
     outcome |-> "none", called |-> FALSE, fraised |-> FALSE,
     wraised |-> FALSE, leaked |-> FALSE, stat |-> {}, roster |-> {}]

Status(d, key) == d.conn.log[key].status

NoBase == [set |-> FALSE, store |-> EmptyStore]

FaultCost(fault) == IF fault = NoFault THEN 0 ELSE 1

\* The week data the source may report: a season that is finished or in
\* progress, at any current week, with or without an end week and a
\* playoff start week.  What sync_metadata stores from it names weeks of
\* 1..MaxWeek only.
Sources ==
    {s \in [start_week : {1}, end_week : {0, MaxWeek},
            current_week : 1..MaxWeek, playoff_start_week : {0, MaxWeek},
            is_finished : {0, 1}] :
        LeagueRow(s).end_week <= MaxWeek}

\* The league row of the older season, synced before.
OlderLeague ==
    [present |-> TRUE, current_week |-> 1, start_week |-> 1, end_week |-> 1,
     playoff_start_week |-> 0, is_finished |-> 1]

InitStore == [EmptyStore EXCEPT !.league[1] = OlderLeague]

\* No operation is running.
SyncIdle ==
    /\ run = "idle"
    /\ pc = "idle"
    /\ wk = 0
    /\ hi = 0
    /\ ks = 0
    /\ ev = NoEvent
    /\ ret = "none"
    /\ base = NoBase
    /\ faults = MaxFaults

SyncInit ==
    /\ db = [disk |-> InitStore, conn |-> InitStore, in_transaction |-> FALSE]
    /\ src \in Sources
    /\ SyncIdle

\* A top-level operation is invoked.
Start(kind, first) ==
    /\ pc = "idle"
    /\ run' = kind
    /\ pc' = first
    /\ ev' = NoEvent
    /\ ret' = "none"
    /\ base' = IF kind = "season" THEN base ELSE NoBase
    /\ wk' = 0
    /\ hi' = 0
    /\ ks' = IF kind = "keepers" THEN 1 ELSE 0
    /\ UNCHANGED <<db, src, faults, dbVars, standVars, fnVars>>

\* The operation ends: by the exception of a unit, or by its return.
Raised ==
    /\ run' = "idle"
    /\ pc' = "idle"
    /\ ret' = "raised"
    /\ base' = NoBase
    /\ UNCHANGED <<wk, hi, ks>>

Returned ==
    /\ run' = "idle"
    /\ pc' = "idle"
    /\ ret' = "ok"
    /\ base' = IF run = "season" THEN [set |-> TRUE, store |-> db'.disk] ELSE NoBase
    /\ UNCHANGED <<wk, hi, ks>>

Goes(next) ==
    /\ pc' = next
    /\ UNCHANGED <<run, ret, base, wk, hi, ks>>

\* The weeks sync_season and sync_incremental go through, from the league
\* row read after the first units: 1..end_week of a finished season,
\* 1..current_week - 1 of a season in progress.
LastWeek(league) ==
    IF league.is_finished = 1 THEN league.end_week ELSE league.current_week - 1

AfterWeeks == IF run = "season" THEN "backfill" ELSE "reset"

EnterWeeks ==
    LET last == LastWeek(db'.conn.league[Latest])
    IN  /\ hi' = last
        /\ wk' = 1
        /\ pc' = IF 1 <= last THEN "weekly" ELSE AfterWeeks
        /\ UNCHANGED <<run, ret, base, ks>>

----------------------------------------------------------------------------
(* sync_season and sync_incremental, unit by unit.                         *)

SyncSeason == Start("season", "metadata")

SyncIncremental == Start("incremental", "metadata")

StepMetadata ==
    /\ pc = "metadata"
    /\ \E fault \in MetadataFaults :
         \E r \in {sync_metadata(db, Latest, src, fault)} :
         /\ FaultCost(fault) <= faults
         /\ r.outcome = "skip" => fault = NoFault
         /\ db' = r.db
         /\ ev' = Event("metadata", Latest, 0, Status(db, LogKey(Latest, "metadata", 0)), r,
                       fault.kind = "fetch", {}, {})
         /\ faults' = faults - FaultCost(fault)
         /\ IF r.outcome = "raise" THEN Raised
            ELSE IF run = "season" THEN Goes("draft") ELSE EnterWeeks
    /\ UNCHANGED <<src, dbVars, standVars, fnVars>>

StepDraft ==
    /\ pc = "draft"
    /\ \E fault \in DraftFaults :
         \E r \in {sync_draft(db, Latest, fault)} :
         /\ FaultCost(fault) <= faults
         /\ r.outcome = "skip" => fault = NoFault
         /\ db' = r.db
         /\ ev' = Event("draft", Latest, 0, Status(db, LogKey(Latest, "draft", 0)), r,
                       fault.kind = "fetch", {}, {})
         /\ faults' = faults - FaultCost(fault)
         /\ IF r.outcome = "raise" THEN Raised ELSE Goes("transactions")
    /\ UNCHANGED <<src, dbVars, standVars, fnVars>>

StepTransactions ==
    /\ pc = "transactions"
    /\ \E fault \in TransactionFaults :
         \E r \in {sync_transactions(db, Latest, fault)} :
         /\ FaultCost(fault) <= faults
         /\ r.outcome = "skip" => fault = NoFault
         /\ db' = r.db
         /\ ev' = Event("transactions", Latest, 0, Status(db, LogKey(Latest, "transactions", 0)), r,
                       fault.kind = "fetch", {}, {})
         /\ faults' = faults - FaultCost(fault)
         /\ IF r.outcome = "raise" THEN Raised
            ELSE IF run = "season" THEN EnterWeeks ELSE Goes("backfill")
    /\ UNCHANGED <<src, dbVars, standVars, fnVars>>

StepWeek ==
    /\ pc = "weekly"
    /\ \E f \in WeekFaults(faults) :
         \E r \in {sync_week(db, Latest, src, wk, f)} :
         /\ r.outcome = "skip" => f = NoWeekFault
         /\ db' = r.db
         /\ ev' = Event("weekly", Latest, wk, Status(db, LogKey(Latest, "weekly", wk)), r,
                       f.sb, f.stat, f.roster)
         /\ faults' = faults - WeekFaultCount(f)
         /\ IF r.outcome = "raise" THEN Raised
            ELSE /\ wk' = wk + 1
                 /\ pc' = IF wk + 1 <= hi THEN "weekly" ELSE AfterWeeks
                 /\ UNCHANGED <<run, ret, base, hi, ks>>
    /\ UNCHANGED <<src, dbVars, standVars, fnVars>>

\* sync_incremental deletes the log row of the transactions unit before
\* it invokes the unit.
StepReset ==
    /\ pc = "reset"
    /\ db' = execute(db, [t |-> "logdel", key |-> LogKey(Latest, "transactions", 0)])
    /\ ev' = NoEvent
    /\ Goes("transactions")
    /\ UNCHANGED <<src, faults, dbVars, standVars, fnVars>>

StepBackfill ==
    /\ pc = "backfill"
    /\ db' = _backfill_transaction_weeks(db, Latest)
    /\ ev' = NoEvent
    /\ Goes("repair")
    /\ UNCHANGED <<src, faults, dbVars, standVars, fnVars>>

StepRepair ==
    /\ pc = "repair"
    /\ db' = _repair_league_weeks(db, Latest)
    /\ ev' = NoEvent
    /\ Returned
    /\ UNCHANGED <<src, faults, dbVars, standVars, fnVars>>

----------------------------------------------------------------------------
(* sync_keepers, season by season.                                         *)

SyncKeepers == Start("keepers", "keepers")

StepKeepers ==
    /\ pc = "keepers"
    /\ \E f \in KeeperFaults(faults) :
         \E r \in {sync_keepers_season(db, ks, f)} :
         /\ r.outcome = "skip" => f = NoKeeperFault
         /\ db' = r.db
         /\ ev' = Event("keepers", ks, 0, Status(db, LogKey(ks, "keepers", 0)), r,
                       FALSE, {}, f.roster)
         /\ faults' = faults - KeeperFaultCount(f)
         /\ ks' = ks + 1
         /\ pc' = IF ks + 1 \in Leagues THEN "keepers" ELSE "lineage"
         /\ UNCHANGED <<run, ret, base, wk, hi>>
    /\ UNCHANGED <<src, dbVars, standVars, fnVars>>

\* _compute_kept_from_season stamps a column of the keeper rows that the
\* store of this model does not hold; then sync_keepers returns.
StepLineage ==
    /\ pc = "lineage"
    /\ ev' = NoEvent
    /\ Returned
    /\ UNCHANGED <<db, src, faults, dbVars, standVars, fnVars>>

SyncNext ==
    \/ SyncSeason
    \/ SyncIncremental
    \/ SyncKeepers
    \/ StepMetadata
    \/ StepDraft
    \/ StepTransactions
    \/ StepWeek
    \/ StepReset
    \/ StepBackfill
    \/ StepRepair
    \/ StepKeepers
    \/ StepLineage

\* sync_season alone, invoked again and again.
SeasonNext ==
    \/ SyncSeason
    \/ StepMetadata
    \/ StepDraft
    \/ StepTransactions
    \/ StepWeek
    \/ StepBackfill
    \/ StepRepair

\* The variables of the other specifications, at rest.
DbIdle == scopes = <<>> /\ reg = [last |-> "none", mark |-> {}, inside |-> {}, nested |-> FALSE]
StandIdle == teamRows = <<>> /\ matchRows = <<>> /\ through = 0 /\ table = <<>>
\* No function of the aggregation engine has been given rows or called.
NoCall == [op |-> "none"]
FnIdle == arg = NoCall /\ res = NoCall

Init == SyncInit /\ DbIdle /\ StandIdle /\ FnIdle

Next == SyncNext

\* The three sync operations, in any order, any number of times.
Spec == Init /\ [][Next]_vars

\* sync_season repeated for ever: the caller invokes it again after every
\* return and every exception, and a run that has started goes on.
SpecSeason == Init /\ [][SeasonNext]_vars /\ WF_vars(SeasonNext)

----------------------------------------------------------------------------
(* Database.transaction() scopes and execute() calls, in any nesting.      *)

\* The rows the statements of this specification write.
DbRows == {Id("team", Latest, t, 0) : t \in Teams}

\* The source at rest, for the specifications that make no external call.
SourceAtRest ==
    [start_week |-> 1, end_week |-> MaxWeek, current_week |-> 1,
     playoff_start_week |-> 0, is_finished |-> 0]

NoOp == [last |-> "none", mark |-> {}, inside |-> {}, nested |-> FALSE]

DbInit ==
    /\ db = NewDb
    /\ src = SourceAtRest
    /\ SyncIdle
    /\ scopes = <<>>
    /\ reg = NoOp
    /\ StandIdle
    /\ FnIdle

\* `with self.transaction():` is entered.  scopes holds, innermost last,
\* whether each open scope is the outermost one; reg holds the last step,
\* the committed rows when the outermost scope was entered, the rows
\* written inside it, and whether a scope was entered inside it.
TxBegin ==
    /\ Len(scopes) < MaxDepth
    /\ scopes' = Append(scopes, TxOuter(db))
    /\ db' = TxEnter(db)
    /\ reg' = IF TxOuter(db)
              THEN [last |-> "enter", mark |-> db.disk.rows, inside |-> {},
                    nested |-> FALSE]
              ELSE [reg EXCEPT !.last = "enter", !.nested = TRUE]
    /\ UNCHANGED <<runVars, standVars, fnVars>>

\* execute() of one INSERT, inside or outside a scope.
TxExecute ==
    /\ \E id \in DbRows :
         /\ db' = execute(db, Row(id))
         /\ reg' = [reg EXCEPT !.last = "execute",
                               !.inside = IF scopes = <<>> THEN @ ELSE @ \cup {id}]
    /\ UNCHANGED <<scopes, runVars, standVars, fnVars>>

\* The body of the innermost scope ends normally.
TxEnd ==
    /\ scopes # <<>>
    /\ db' = TxExit(db, scopes[Len(scopes)])
    /\ scopes' = SubSeq(scopes, 1, Len(scopes) - 1)
    /\ reg' = [reg EXCEPT !.last = "exit"]
    /\ UNCHANGED <<runVars, standVars, fnVars>>

\* An exception leaves the innermost scope; the code around it may catch
\* it or let it leave the next scope.
TxRaise ==
    /\ scopes # <<>>
    /\ db' = TxAbort(db, scopes[Len(scopes)])
    /\ scopes' = SubSeq(scopes, 1, Len(scopes) - 1)
    /\ reg' = [reg EXCEPT !.last = "raise"]
    /\ UNCHANGED <<runVars, standVars, fnVars>>

DbNext ==
    \/ TxBegin
    \/ TxExecute
    \/ TxEnd
    \/ TxRaise

SpecDb == DbInit /\ [][DbNext]_vars

----------------------------------------------------------------------------
(* TeamProfiler.standings.                                                 *)

TeamKeys == 1..NumKeys

\* winner_team_key NULL.
NoWinner == 0

\* The matchup rows sync_week stores: a decided matchup names its winner,
\* a tied one carries is_tied = 1 and no winner, a matchup that is not
\* scored yet carries no winner and is_tied = 0.
MatchupRows ==
    {m \in [week : Weeks, team_key_1 : TeamKeys, team_key_2 : TeamKeys,
            winner_team_key : TeamKeys \cup {NoWinner}, is_tied : {0, 1}] :
        /\ m.team_key_1 < m.team_key_2
        /\ m.winner_team_key \in {m.team_key_1, m.team_key_2, NoWinner}
        /\ m.is_tied = 1 => m.winner_team_key = NoWinner}

\* The team rows of a league, in the order the SELECT returns them.
TeamLists ==
    {t \in UNION {[1..n -> TeamKeys] : n \in 2..NumKeys} :
        \A i, j \in DOMAIN t : i # j => t[i] # t[j]}

Range(f) == {f[i] : i \in DOMAIN f}

NewRecord(tk) == [team_key |-> tk, wins |-> 0, losses |-> 0, ties |-> 0]

\* The body of the loop over the matchup rows.
Credit(records, m) ==
    LET tk1 == m.team_key_1
        tk2 == m.team_key_2
    IN  IF tk1 \notin DOMAIN records \/ tk2 \notin DOMAIN records THEN records
        ELSE IF m.is_tied = 1
        THEN [records EXCEPT ![tk1].ties = @ + 1, ![tk2].ties = @ + 1]
        ELSE IF m.winner_team_key = tk1
        THEN [records EXCEPT ![tk1].wins = @ + 1, ![tk2].losses = @ + 1]
        ELSE IF m.winner_team_key = tk2
        THEN [records EXCEPT ![tk2].wins = @ + 1, ![tk1].losses = @ + 1]
        ELSE records

RECURSIVE CreditAll(_, _)
CreditAll(records, ms) ==
    IF ms = <<>> THEN records ELSE CreditAll(Credit(records, Head(ms)), Tail(ms))

\* A variant of the sort key that orders losses the other way.
KeyGreaterLossesDescending(a, b) ==
    a.wins > b.wins \/ (a.wins = b.wins /\ a.losses > b.losses)

\* The sort key (wins, -losses), compared as tuples.
KeyGreater(a, b) ==
    a.wins > b.wins \/ (a.wins = b.wins /\ -a.losses > -b.losses)

\* sorted(..., reverse=True): descending by key, records of equal key in
\* the order they came.
RECURSIVE Insert(_, _)
Insert(list, r) ==
    IF list = <<>> THEN <<r>>
    ELSE IF KeyGreater(r, Head(list)) THEN <<r>> \o list
    ELSE <<Head(list)>> \o Insert(Tail(list), r)

RECURSIVE sorted(_)
sorted(list) ==
    IF list = <<>> THEN <<>>
    ELSE Insert(sorted(SubSeq(list, 1, Len(list) - 1)), list[Len(list)])

standings(teams, matchups, through_week) ==
    LET InWeeks(m) == m.week <= through_week
        records == CreditAll([tk \in Range(teams) |-> NewRecord(tk)],
                             SelectSeq(matchups, InWeeks))
        ranked == sorted([i \in DOMAIN teams |-> records[teams[i]]])
    IN  [i \in DOMAIN ranked |->
            [team_key |-> ranked[i].team_key, wins |-> ranked[i].wins,
             losses |-> ranked[i].losses, ties |-> ranked[i].ties, rank |-> i]]

StandInit ==
    /\ db = NewDb
    /\ src = SourceAtRest
    /\ SyncIdle
    /\ DbIdle
    /\ teamRows \in TeamLists
    /\ matchRows = <<>>
    /\ through = 0
    /\ table = <<>>
    /\ FnIdle

\* sync_week stores one more matchup row; the result of an earlier call
\* is of the store as it was.
AddMatchup ==
    /\ Len(matchRows) < MaxMatchups
    /\ \E m \in MatchupRows : matchRows' = Append(matchRows, m)
    /\ through' = 0
    /\ table' = <<>>
    /\ UNCHANGED <<teamRows, syncVars, dbVars, fnVars>>

\* The SELECT on matchup has no ORDER BY: the same rows may be read in
\* another order.
Reorder ==
    /\ \E i \in 1..(Len(matchRows) - 1) :
         matchRows' = [matchRows EXCEPT ![i] = matchRows[i + 1],
                                        ![i + 1] = matchRows[i]]
    /\ UNCHANGED <<teamRows, through, table, syncVars, dbVars, fnVars>>

Standings ==
    /\ \E w \in Weeks :
         /\ through' = w
         /\ table' = standings(teamRows, matchRows, w)
    /\ UNCHANGED <<teamRows, matchRows, syncVars, dbVars, fnVars>>

StandNext ==
    \/ AddMatchup
    \/ Reorder
    \/ Standings

SpecStand == StandInit /\ [][StandNext]_vars

----------------------------------------------------------------------------
(* ManagerHistory.h2h_matrix.                                              *)

Guids == 1..NumKeys

\* f with key k set to v, k added when it is no key of f yet.
Put(f, k, v) == [x \in DOMAIN f \cup {k} |-> IF x = k THEN v ELSE f[x]]

\* get_all_matchups_with_manager_guids: the matchup rows joined with the
\* team rows of both sides (teams: team_key -> manager_guid).
JoinGuids(teams, matchups) ==
    [i \in DOMAIN matchups |->
        [guid_1 |-> teams[matchups[i].team_key_1],
         guid_2 |-> teams[matchups[i].team_key_2],
         team_key_1 |-> matchups[i].team_key_1,
         team_key_2 |-> matchups[i].team_key_2,
         winner_team_key |-> matchups[i].winner_team_key,
         is_tied |-> matchups[i].is_tied,
         week |-> matchups[i].week]]

NoRecord == [wins |-> 0, losses |-> 0, ties |-> 0]

\* One direction of one matchup: the body of the inner loop.
CreditDirection(matrix, m, ga, gb, tk_a) ==
    LET row == IF ga \in DOMAIN matrix THEN matrix[ga] ELSE <<>>
        cell == IF gb \in DOMAIN row THEN row[gb] ELSE NoRecord
        cell1 == IF m.is_tied = 1 THEN [cell EXCEPT !.ties = @ + 1]
                 ELSE IF m.winner_team_key = tk_a THEN [cell EXCEPT !.wins = @ + 1]
                 ELSE [cell EXCEPT !.losses = @ + 1]
    IN  Put(matrix, ga, Put(row, gb, cell1))

CreditPair(matrix, m) ==
    IF m.guid_1 = m.guid_2 THEN matrix
    ELSE CreditDirection(
             CreditDirection(matrix, m, m.guid_1, m.guid_2, m.team_key_1),
             m, m.guid_2, m.guid_1, m.team_key_2)

RECURSIVE CreditPairs(_, _)
CreditPairs(matrix, ms) ==
    IF ms = <<>> THEN matrix
    ELSE CreditPairs(CreditPair(matrix, Head(ms)), Tail(ms))

h2h_matrix(teams, matchups) == CreditPairs(<<>>, JoinGuids(teams, matchups))

H2HInit ==
    /\ db = NewDb
    /\ src = SourceAtRest
    /\ SyncIdle
    /\ DbIdle
    /\ StandIdle
    /\ arg \in {[op |-> "h2h", teams |-> t, matchups |-> <<>>] :
                   t \in [TeamKeys -> Guids]}
    /\ res = NoCall

\* One more matchup row is stored.
H2HStore ==
    /\ arg.op = "h2h"
    /\ Len(arg.matchups) < MaxMatchups
    /\ \E m \in MatchupRows : arg' = [arg EXCEPT !.matchups = Append(@, m)]
    /\ res' = NoCall
    /\ UNCHANGED <<syncVars, dbVars, standVars>>

H2HMatrix ==
    /\ arg.op = "h2h"
    /\ res' = [op |-> "h2h", matrix |-> h2h_matrix(arg.teams, arg.matchups)]
    /\ UNCHANGED <<arg, syncVars, dbVars, standVars>>

H2HNext ==
    \/ H2HStore
    \/ H2HMatrix

SpecH2H == H2HInit /\ [][H2HNext]_vars

----------------------------------------------------------------------------
(* LeagueRecords._streaks.                                                 *)

Managers == 1..NumManagers

\* The rows of get_all_regular_season_matchups_with_managers, which come
\* ordered by (season, week): row i is the matchup of the i-th week played.
\* Manager 1 plays every week, as team 1 of the matchup; the team key of a
\* manager is its guid.
StreakRows ==
    {r \in [guid_1 : {1}, guid_2 : Managers \ {1}, team_key_1 : {1},
            team_key_2 : Managers, winner_team_key : Managers \cup {NoWinner},
            is_tied : {0, 1}] :
        /\ r.team_key_2 = r.guid_2
        /\ r.winner_team_key \in {r.team_key_1, r.team_key_2, NoWinner}
        /\ r.is_tied = 1 => r.winner_team_key = NoWinner}

NoBest == [manager |-> 0, streak |-> 0]

NoStreaks ==
    [active |-> <<>>, undefeated |-> <<>>, best_win |-> NoBest,
     best_loss |-> NoBest, best_undefeated |-> NoBest]

\* A variant of _check in which a tie leaves the active streak as it is.
CheckTieKeepsRun(st, guid, result) ==
    LET a0 == IF guid \in DOMAIN st.active THEN st.active[guid]
              ELSE [type |-> "None", count |-> 0]
        a == IF result = "T" THEN a0
             ELSE IF result = a0.type THEN [a0 EXCEPT !.count = @ + 1]
             ELSE [type |-> result, count |-> 1]
        u0 == IF guid \in DOMAIN st.undefeated THEN st.undefeated[guid] ELSE 0
        u == IF result = "L" THEN 0 ELSE u0 + 1
    IN  [active |-> Put(st.active, guid, a),
         undefeated |-> Put(st.undefeated, guid, u),
         best_win |-> IF result = "W" /\ a.count > st.best_win.streak
                      THEN [manager |-> guid, streak |-> a.count]
                      ELSE st.best_win,
         best_loss |-> IF result = "L" /\ a.count > st.best_loss.streak
                       THEN [manager |-> guid, streak |-> a.count]
                       ELSE st.best_loss,
         best_undefeated |-> IF result # "L" /\ u > st.best_undefeated.streak
                             THEN [manager |-> guid, streak |-> u]
                             ELSE st.best_undefeated]

\* _check(guid, name, team_name, result), on the dictionaries of _streaks.
_check(st, guid, result) ==
    LET a0 == IF guid \in DOMAIN st.active THEN st.active[guid]
              ELSE [type |-> "None", count |-> 0]
        a == IF result = a0.type THEN [a0 EXCEPT !.count = @ + 1]
             ELSE [type |-> result, count |-> 1]
        u0 == IF guid \in DOMAIN st.undefeated THEN st.undefeated[guid] ELSE 0
        u == IF result = "L" THEN 0 ELSE u0 + 1
    IN  [active |-> Put(st.active, guid, a),
         undefeated |-> Put(st.undefeated, guid, u),
         best_win |-> IF result = "W" /\ a.count > st.best_win.streak
                      THEN [manager |-> guid, streak |-> a.count]
                      ELSE st.best_win,
         best_loss |-> IF result = "L" /\ a.count > st.best_loss.streak
                       THEN [manager |-> guid, streak |-> a.count]
                       ELSE st.best_loss,
         best_undefeated |-> IF result # "L" /\ u > st.best_undefeated.streak
                             THEN [manager |-> guid, streak |-> u]
                             ELSE st.best_undefeated]

\* The body of the loop over the rows.
StreakRow(st, r) ==
    IF r.is_tied = 1
    THEN _check(_check(st, r.guid_1, "T"), r.guid_2, "T")
    ELSE IF r.winner_team_key = r.team_key_1
    THEN _check(_check(st, r.guid_1, "W"), r.guid_2, "L")
    ELSE _check(_check(st, r.guid_2, "W"), r.guid_1, "L")

RECURSIVE StreakScan(_, _)
StreakScan(st, rows) ==
    IF rows = <<>> THEN st
    ELSE CHOOSE x \in {StreakScan(st1, rest) : st1 \in {StreakRow(st, Head(rows))},
                                               rest \in {Tail(rows)}} : TRUE

_streaks(rows) == StreakScan(NoStreaks, rows)

StreakInit ==
    /\ db = NewDb
    /\ src = SourceAtRest
    /\ SyncIdle
    /\ DbIdle
    /\ StandIdle
    /\ arg = [op |-> "streaks", rows |-> <<>>]
    /\ res = NoCall

\* The matchup of one more week is stored.
StreakStore ==
    /\ arg.op = "streaks"
    /\ Len(arg.rows) < MaxResults
    /\ \E r \in StreakRows : arg' = [arg EXCEPT !.rows = Append(@, r)]
    /\ res' = NoCall
    /\ UNCHANGED <<syncVars, dbVars, standVars>>

Streaks ==
    /\ arg.op = "streaks"
    /\ res' = [op |-> "streaks", streaks |-> _streaks(arg.rows)]
    /\ UNCHANGED <<arg, syncVars, dbVars, standVars>>

StreakNext ==
    \/ StreakStore
    \/ Streaks

SpecStreaks == StreakInit /\ [][StreakNext]_vars

----------------------------------------------------------------------------
(* ManagerHistory.managers.                                                *)

\* finish NULL (no final rank stored).
NoFinish == -1

\* The ranks the source serves: 1..num_teams.
Finishes == Teams \cup {NoFinish}

\* get_all_manager_teams: the team rows joined with their league, ordered
\* by season.  Every season but the latest is finished; team t of every
\* season belongs to manager t; the team key
\* of season s, team t is (s - 1) * num_teams + t.
TeamSeasons ==
    LET slots == [i \in 1..(Cardinality(Leagues) * NumTeams) |->
                     [season |-> ((i - 1) \div NumTeams) + 1,
                      team |-> ((i - 1) % NumTeams) + 1]]
    IN  {[i \in DOMAIN slots |->
             [manager_guid |-> slots[i].team, season |-> slots[i].season,
              team_key |-> i,
              finish |-> fin[i], is_finished |-> done[slots[i].season]]] :
            fin \in [DOMAIN slots -> Finishes],
            done \in {d \in [Leagues -> {0, 1}] :
                         \A lg \in Leagues \ {Latest} : d[lg] = 1}}

\* The rows of get_all_matchups_with_manager_guids for the teams of the
\* first season.
ManagerMatchups ==
    {m \in [guid_1 : {1}, guid_2 : {2}, team_key_1 : {1}, team_key_2 : {2},
            winner_team_key : {1, 2, NoWinner},
            is_tied : {0, 1}, is_playoffs : {0, 1}] :
        /\ m.is_tied = 1 => m.winner_team_key = NoWinner
        /\ m.is_playoffs = 1 => m.winner_team_key # NoWinner}

NewManager(guid) ==
    [guid |-> guid, wins |-> 0, losses |-> 0, ties |-> 0,
     playoff_wins |-> 0, playoff_losses |-> 0, championships |-> 0,
     best_finish |-> NoFinish, worst_finish |-> NoFinish]

\* The guids of the team rows in the order of their first row (the keys of
\* the dictionary of _load_manager_teams).
RECURSIVE GuidOrder(_)
GuidOrder(teams) ==
    IF teams = <<>> THEN <<>>
    ELSE LET before == GuidOrder(SubSeq(teams, 1, Len(teams) - 1))
             g == teams[Len(teams)].manager_guid
         IN  IF g \in Range(before) THEN before ELSE Append(before, g)

\* The body of the loop over the matchups (weekly outcome and playoff
\* outcome; the category counts are left out).
ManagerCredit(records, m) ==
    LET g1 == m.guid_1
        g2 == m.guid_2
        first == m.winner_team_key = m.team_key_1
    IN  IF g1 \notin DOMAIN records \/ g2 \notin DOMAIN records THEN records
        ELSE IF m.is_playoffs = 1
        THEN IF m.is_tied = 1 THEN records
             ELSE IF first
             THEN [records EXCEPT ![g1].playoff_wins = @ + 1,
                                  ![g2].playoff_losses = @ + 1]
             ELSE [records EXCEPT ![g2].playoff_wins = @ + 1,
                                  ![g1].playoff_losses = @ + 1]
        ELSE IF m.is_tied = 1
        THEN [records EXCEPT ![g1].ties = @ + 1, ![g2].ties = @ + 1]
        ELSE IF first
        THEN [records EXCEPT ![g1].wins = @ + 1, ![g2].losses = @ + 1]
        ELSE [records EXCEPT ![g2].wins = @ + 1, ![g1].losses = @ + 1]

RECURSIVE ManagerCredits(_, _)
ManagerCredits(records, ms) ==
    IF ms = <<>> THEN records
    ELSE CHOOSE x \in {ManagerCredits(r1, rest) :
                          r1 \in {ManagerCredit(records, Head(ms))},
                          rest \in {Tail(ms)}} : TRUE

\* Python truth of a finish value: None and 0 are false.
Truthy(x) == x # NoFinish /\ x # 0

\* A variant of the finish step that counts a championship for every
\* final rank 1, finished league or not.
FinishStepAnySeason(records, t) ==
    IF t.finish = NoFinish THEN records
    ELSE LET g == t.manager_guid
             best == records[g].best_finish
             worst == records[g].worst_finish
         IN  [records EXCEPT
                ![g].best_finish =
                    IF Truthy(best) THEN Min({best, t.finish}) ELSE t.finish,
                ![g].worst_finish =
                    IF Truthy(worst) THEN Max({worst, t.finish}) ELSE t.finish,
                ![g].championships = IF t.finish = 1 THEN @ + 1 ELSE @]

\* The body of the loop over the teams of a manager: best and worst
\* finish, championships.
FinishStep(records, t) ==
    IF t.finish = NoFinish THEN records
    ELSE LET g == t.manager_guid
             best == records[g].best_finish
             worst == records[g].worst_finish
         IN  [records EXCEPT
                ![g].best_finish =
                    IF Truthy(best) THEN Min({best, t.finish}) ELSE t.finish,
                ![g].worst_finish =
                    IF Truthy(worst) THEN Max({worst, t.finish}) ELSE t.finish,
                ![g].championships =
                    IF t.is_finished = 1 /\ t.finish = 1 THEN @ + 1 ELSE @]

RECURSIVE FinishSteps(_, _)
FinishSteps(records, teams) ==
    IF teams = <<>> THEN records
    ELSE CHOOSE x \in {FinishSteps(r1, rest) :
                          r1 \in {FinishStep(records, Head(teams))},
                          rest \in {Tail(teams)}} : TRUE

managers(teams, matchups) ==
    LET order == GuidOrder(teams)
        records == FinishSteps(
                       ManagerCredits([g \in Range(order) |-> NewManager(g)],
                                      matchups),
                       teams)
    IN  sorted([i \in DOMAIN order |-> records[order[i]]])

ManagersInit ==
    /\ db = NewDb
    /\ src = SourceAtRest
    /\ SyncIdle
    /\ DbIdle
    /\ StandIdle
    /\ arg \in {[op |-> "managers", teams |-> t, matchups |-> <<>>] :
                   t \in TeamSeasons}
    /\ res = NoCall

\* One more matchup row is stored.
ManagersStore ==
    /\ arg.op = "managers"
    /\ Len(arg.matchups) < MaxMatchups
    /\ \E m \in ManagerMatchups : arg' = [arg EXCEPT !.matchups = Append(@, m)]
    /\ UNCHANGED <<res, syncVars, dbVars, standVars>>

\* A matchup row is deleted, or replaced by another.
ManagersAlter ==
    /\ arg.op = "managers"
    /\ arg.matchups # <<>>
    /\ \/ arg' = [arg EXCEPT !.matchups = Tail(@)]
       \/ \E m \in ManagerMatchups : arg' = [arg EXCEPT !.matchups[1] = m]
    /\ UNCHANGED <<res, syncVars, dbVars, standVars>>

ManagersCall ==
    /\ arg.op = "managers"
    /\ res' = [op |-> "managers", list |-> managers(arg.teams, arg.matchups)]
    /\ UNCHANGED <<arg, syncVars, dbVars, standVars>>

ManagersNext ==
    \/ ManagersStore
    \/ ManagersAlter
    \/ ManagersCall

SpecManagers == ManagersInit /\ [][ManagersNext]_vars

----------------------------------------------------------------------------
(* YahooSync._compute_kept_from_season and Franchise.resolve_franchise.     *)

LineageSeasons == 1..MaxSeasons
Players == 1..NumPlayers

\* team.manager_guid IS NULL, read as "" by `r["manager_guid"] or ""`.
NoGuid == 0
\* A manager entry of a franchise definition without "to", or with to: null.
NoTo == 0
\* resolve_franchise returns None.
NoFranchise == -1
\* keeper.kept_from_season IS NULL, as sync_keepers inserts the row.
NoSeason == 0

\* "franchise_{i}" for the i-th definition (i from 0).  A franchise id is
\* no manager guid: guids are the numbers up to NumManagers.
FranchiseId(i) == NumManagers + 1 + i

\* The "franchises" list of franchises.yaml.
FranchiseDefs ==
    { <<>>,
      << [managers |-> << [guid |-> 1, from |-> 1, to |-> 1],
                          [guid |-> 3, from |-> 2, to |-> NoTo] >>],
         [managers |-> << [guid |-> 2, from |-> 1, to |-> NoTo] >>] >>,
      << [managers |-> << [guid |-> 1, from |-> 2, to |-> NoTo] >>] >> }

\* The team table, (season, team number) -> manager_guid: the same manager
\* on the same team number every season; the team numbers exchanged from
\* season 3 on; team 1 of manager 1 in season 1 and team 2 of manager 3
\* afterwards, the other team without a manager.
TeamTables ==
    { [k \in LineageSeasons \X Teams |-> k[2]],
      [k \in LineageSeasons \X Teams |-> IF k[1] <= 2 THEN k[2] ELSE 3 - k[2]],
      [k \in LineageSeasons \X Teams |->
          IF k[1] = 1 THEN (IF k[2] = 1 THEN 1 ELSE NoGuid)
                      ELSE (IF k[2] = 2 THEN 3 ELSE NoGuid)] }

\* The first manager entry, in the order of the definitions, that names the
\* guid and whose span holds the season.
ManagerMatches(m, guid, season) ==
    /\ m.guid = guid
    /\ ~(season < m.from)
    /\ ~(m.to # NoTo /\ season > m.to)

resolve_franchise(defs, guid, season) ==
    LET hits == {i \in DOMAIN defs :
                    \E j \in DOMAIN defs[i].managers :
                        ManagerMatches(defs[i].managers[j], guid, season)}
    IN  IF hits = {} THEN NoFranchise ELSE FranchiseId(Min(hits) - 1)

\* Yahoo player key "{game_key}.p.{player_id}": the game key is the season's.
PlayerKey(season, player) == <<season, player>>

extract_player_id(player_key) == player_key[2]

\* The keeper row sync_keepers stores for a (league, player): the league is
\* the season's, the rowid is the row's own.
KeeperRow(season, player, team) ==
    [rowid |-> (season - 1) * NumPlayers + player, team_key |-> team,
     player_key |-> PlayerKey(season, player), season |-> season,
     kept_from_season |-> NoSeason]

\* The rows of a function over a set of numbers, in ascending order.
RECURSIVE Ascending(_, _)
Ascending(f, ids) ==
    IF ids = {} THEN <<>>
    ELSE <<f[Min(ids)]>> \o Ascending(f, ids \ {Min(ids)})

\* raw_rows: keeper JOIN team, ORDER BY player_key, season.
RawRows(keepers, teams) ==
    LET joined == [id \in DOMAIN keepers |->
                      [rowid |-> keepers[id].rowid,
                       team_key |-> keepers[id].team_key,
                       player_key |-> keepers[id].player_key,
                       season |-> keepers[id].season,
                       manager_guid |->
                           teams[<<keepers[id].season, keepers[id].team_key>>]]]
    IN  Ascending(joined, DOMAIN keepers)

\* The loop that resolves each keeper's franchise_id.
Resolved(defs, r) ==
    LET guid == r.manager_guid
        f == resolve_franchise(defs, guid, r.season)
    IN  [rowid |-> r.rowid, player_key |-> r.player_key, season |-> r.season,
         franchise_id |-> IF f # NoFranchise THEN f ELSE guid]

gk(r) == <<r.franchise_id, extract_player_id(r.player_key)>>

\* (gk(a), a.season) < (gk(b), b.season), as Python orders tuples.
LineageLess(a, b) ==
    \/ gk(a)[1] < gk(b)[1]
    \/ gk(a)[1] = gk(b)[1] /\ gk(a)[2] < gk(b)[2]
    \/ gk(a) = gk(b) /\ a.season < b.season

\* sorted(rows, key=...): stable, a row goes after the rows not greater.
RECURSIVE LineageInsert(_, _)
LineageInsert(r, s) ==
    IF s = <<>> THEN <<r>>
    ELSE IF LineageLess(r, Head(s)) THEN <<r>> \o s
    ELSE <<Head(s)>> \o LineageInsert(r, Tail(s))

RECURSIVE rows_sorted(_)
rows_sorted(rows) ==
    IF rows = <<>> THEN <<>>
    ELSE LET n == Len(rows)
         IN  LineageInsert(rows[n], rows_sorted(SubSeq(rows, 1, n - 1)))

\* The start of the run never moves: every row of a group gets the first
\* season of the group.
RunStartNoGap(entries, i, current_start) ==
    IF i = 1 \/ gk(entries[i]) # gk(entries[i - 1])
    THEN entries[i].season
    ELSE current_start

\* current_start for entry i: the entry's season at the head of a group
\* of groupby, and where the season is not the one after the season of the
\* entry before.
RunStart(entries, i, current_start) ==
    IF i = 1 \/ gk(entries[i]) # gk(entries[i - 1])
    THEN entries[i].season
    ELSE IF entries[i].season # entries[i - 1].season + 1
         THEN entries[i].season
         ELSE current_start

\* updates: the (kept_from, rowid) pairs, rowid -> kept_from.
RECURSIVE Updates(_, _, _, _)
Updates(entries, i, current_start, acc) ==
    IF i > Len(entries) THEN acc
    ELSE LET start == RunStart(entries, i, current_start)
         IN  Updates(entries, i + 1, start,
                     Put(acc, entries[i].rowid, start))

\* UPDATE keeper SET kept_from_season = ? WHERE rowid = ?, for all updates.
_compute_kept_from_season(keepers, teams, defs) ==
    LET raw == RawRows(keepers, teams)
        rows == [i \in DOMAIN raw |-> Resolved(defs, raw[i])]
        updates == Updates(rows_sorted(rows), 1, NoSeason, <<>>)
    IN  [id \in DOMAIN keepers |->
            IF keepers[id].rowid \in DOMAIN updates
            THEN [keepers[id] EXCEPT !.kept_from_season = updates[keepers[id].rowid]]
            ELSE keepers[id]]

LineageInit ==
    /\ db = NewDb
    /\ src = SourceAtRest
    /\ SyncIdle
    /\ DbIdle
    /\ StandIdle
    /\ arg \in {[op |-> "lineage", teams |-> t, defs |-> d, keepers |-> <<>>] :
                   t \in TeamTables, d \in FranchiseDefs}
    /\ res = NoCall

\* sync_keepers stores a keeper of a season: a player is on one roster of
\* the league, so a (league, player) has one row.
KeeperInsert ==
    /\ arg.op = "lineage"
    /\ Cardinality(DOMAIN arg.keepers) < MaxKeepers
    /\ \E s \in LineageSeasons, p \in Players, t \in Teams :
          LET row == KeeperRow(s, p, t)
          IN  /\ row.rowid \notin DOMAIN arg.keepers
              /\ arg' = [arg EXCEPT !.keepers = Put(@, row.rowid, row)]
    /\ res' = NoCall
    /\ UNCHANGED <<syncVars, dbVars, standVars>>

LineageCall ==
    /\ arg.op = "lineage"
    /\ arg' = [arg EXCEPT !.keepers =
                  _compute_kept_from_season(@, arg.teams, arg.defs)]
    /\ res' = [op |-> "lineage"]
    /\ UNCHANGED <<syncVars, dbVars, standVars>>

LineageNext ==
    \/ KeeperInsert
    \/ LineageCall

SpecLineage == LineageInit /\ [][LineageNext]_vars

----------------------------------------------------------------------------
(* get_roster_with_draft_costs.                                            *)

Drafted == 1..NumDrafted

\* The CASE's cost for a player without a pick or with a drop.
SentinelCost == 24

\* draft_pick of the league: row n is the pick with pick number n, of a
\* team of the league; a player is drafted at most once.
DraftOrders ==
    {d \in UNION {[1..n -> [team_key : Teams, player_key : Drafted]] :
                     n \in 0..NumDrafted} :
        \A i, j \in DOMAIN d : d[i].player_key = d[j].player_key => i = j}

\* transaction_player JOIN transaction_record: the league of the
\* transaction, the player and the type of the player's move.
TransactionPlayers ==
    [league_key : {Latest}, player_key : Drafted, type : {"add", "drop"}]
        \cup [league_key : Leagues \ {Latest}, player_key : Drafted,
              type : {"drop"}]

\* CTE team_picks: ROW_NUMBER() OVER (PARTITION BY team_key ORDER BY pick).
team_picks(picks) ==
    {[player_key |-> picks[n].player_key,
      team_pick_idx |-> Cardinality({m \in 1..n :
                            picks[m].team_key = picks[n].team_key})] :
        n \in DOMAIN picks}

\* CTE dropped_players without the league of the transaction.
DroppedAnyLeague(txns, league_key) ==
    {t.player_key : t \in {t \in txns : t.type = "drop"}}

\* CTE dropped_players.
dropped_players(txns, league_key) ==
    {t.player_key : t \in {t \in txns :
                              t.league_key = league_key /\ t.type = "drop"}}

\* The rows of the SELECT: a roster row LEFT JOINed with team_picks and
\* with dropped_players, and the CASE.
get_roster_with_draft_costs(picks, txns, roster, league_key) ==
    LET tp == team_picks(picks)
        dropped == dropped_players(txns, league_key)
        joined(wr) == {c \in tp : c.player_key = wr}
        cost(wr, c) == IF wr \in dropped THEN SentinelCost
                       ELSE c.team_pick_idx
    IN  UNION {IF joined(wr) = {}
               THEN {[player_key |-> wr, draft_cost |-> SentinelCost]}
               ELSE {[player_key |-> wr, draft_cost |-> cost(wr, c)] :
                        c \in joined(wr)} : wr \in roster}

\* The roster of team 1 of the latest league in the week asked for.
CostInit ==
    /\ db = NewDb
    /\ src = SourceAtRest
    /\ SyncIdle
    /\ DbIdle
    /\ StandIdle
    /\ arg \in {[op |-> "cost", picks |-> d, roster |-> r, txns |-> {}] :
                   d \in DraftOrders, r \in SUBSET Drafted}
    /\ res = NoCall

\* sync_transactions stores one more move of a player.
CostStore ==
    /\ arg.op = "cost"
    /\ Cardinality(arg.txns) < MaxMatchups
    /\ \E t \in TransactionPlayers \ arg.txns :
          arg' = [arg EXCEPT !.txns = @ \cup {t}]
    /\ res' = NoCall
    /\ UNCHANGED <<syncVars, dbVars, standVars>>

CostCall ==
    /\ arg.op = "cost"
    /\ res' = [op |-> "cost",
               rows |-> get_roster_with_draft_costs(arg.picks, arg.txns,
                                                    arg.roster, Latest)]
    /\ UNCHANGED <<arg, syncVars, dbVars, standVars>>

CostNext ==
    \/ CostStore
    \/ CostCall

SpecCost == CostInit /\ [][CostNext]_vars

----------------------------------------------------------------------------
(* PlayerValue._compute_rankings, for one scoring category.  A z-score is  *)
(* kept in hundredths, the unit round(z, 2) keeps.                          *)

Starters == 1..NumStarters

\* The values of player_weekly_stat for the category; 0 is also what a
\* NULL value or a missing row reads as.
StatValues == {0, 10, 15, 20}

\* weekly_roster rows of the week with the player's stat value.
RosterStats == [Starters -> [is_starter : {0, 1}, value : StatValues]]

\* player_stats: the starters with a non-zero value in the category.
player_stats(roster) ==
    {p \in Starters : roster[p].is_starter = 1 /\ roster[p].value # 0}

RECURSIVE SumOf(_, _)
SumOf(f, S) ==
    IF S = {} THEN 0
    ELSE LET x == CHOOSE x \in S : TRUE IN f[x] + SumOf(f, S \ {x})

\* round(sqrt(num / den), 2) in hundredths: the k whose half-open interval
\* [k - 1/2, k + 1/2) holds 100 * sqrt(num / den).
ZRange == 0..200

RoundedRoot(num, den) ==
    CHOOSE k \in ZRange :
        /\ k = 0 \/ (2 * k - 1) * (2 * k - 1) * den <= 40000 * num
        /\ 40000 * num < (2 * k + 1) * (2 * k + 1) * den

\* statistics.pstdev: the sum of squares is divided by n.
PopulationDivisor(n) == n

\* statistics.stdev: the sum of squares is divided by n - 1.
SampleDivisor(n) == n - 1

\* z = (raw - mean) / stdev for player p, with mean = S / n and
\* stdev = sqrt(SS / (n * n * divisor)) where SS sums (n * x - S)^2;
\* the stdev is 1.0 for a single value and where it is not positive.
ZScore(roster, p) ==
    LET Q == player_stats(roster)
        n == Cardinality(Q)
        val == [q \in Q |-> roster[q].value]
        S == SumOf(val, Q)
        dev == [q \in Q |-> (n * val[q] - S) * (n * val[q] - S)]
        SS == SumOf(dev, Q)
        d == n * val[p] - S
    IN  IF n <= 1 \/ SS = 0 THEN 0
        ELSE IF d >= 0 THEN RoundedRoot(d * d * SampleDivisor(n), SS)
        ELSE 0 - RoundedRoot(d * d * SampleDivisor(n), SS)

\* A PlayerRank: the sign is flipped where lower is better (sort_order 0).
PlayerRank(roster, sort_order, p) ==
    LET z == IF sort_order = 0 THEN 0 - ZScore(roster, p) ELSE ZScore(roster, p)
    IN  [player_key |-> p, z_total |-> z, z_score |-> z,
         stat_line |-> roster[p].value]

\* results.sort(key=z_total, reverse=True): stable, the greater first.
RECURSIVE RankInsert(_, _)
RankInsert(r, s) ==
    IF s = <<>> THEN <<r>>
    ELSE IF Head(s).z_total < r.z_total THEN <<r>> \o s
    ELSE <<Head(s)>> \o RankInsert(r, Tail(s))

RECURSIVE RankSort(_)
RankSort(rs) ==
    IF rs = <<>> THEN <<>>
    ELSE LET n == Len(rs)
         IN  RankInsert(rs[n], RankSort(SubSeq(rs, 1, n - 1)))

\* The default of the limit parameter.
RankLimit == 10

_compute_rankings(roster, sort_order) ==
    LET Q == player_stats(roster)
        byKey == [p \in Q |-> PlayerRank(roster, sort_order, p)]
        sortedRanks == RankSort(Ascending(byKey, Q))
    IN  SubSeq(sortedRanks, 1, Min({RankLimit, Len(sortedRanks)}))

RankInit ==
    /\ db = NewDb
    /\ src = SourceAtRest
    /\ SyncIdle
    /\ DbIdle
    /\ StandIdle
    /\ arg \in {[op |-> "rank", sort_order |-> o, roster |-> r] :
                   o \in {0, 1},
                   r \in {r \in RosterStats : \A p \in Starters : r[p].value = 0}}
    /\ res = NoCall

\* sync_week stores the stat value of a player of the week.
StatStore ==
    /\ arg.op = "rank"
    /\ \E p \in Starters, v \in StatValues :
          /\ arg.roster[p].value # v
          /\ arg' = [arg EXCEPT !.roster[p].value = v]
    /\ res' = NoCall
    /\ UNCHANGED <<syncVars, dbVars, standVars>>

RankCall ==
    /\ arg.op = "rank"
    /\ res' = [op |-> "rank", list |-> _compute_rankings(arg.roster, arg.sort_order)]
    /\ UNCHANGED <<arg, syncVars, dbVars, standVars>>

RankNext ==
    \/ StatStore
    \/ RankCall

SpecRank == RankInit /\ [][RankNext]_vars

----------------------------------------------------------------------------
(* A unit statement by statement, with the process stopping anywhere.      *)
(* arg is the unit being run: its log key, the external calls it makes     *)
(* before its transaction scope, the statements of the scope (a call to    *)
(* the source is a statement that writes nothing) and the committed store  *)
(* it was started on.                                                      *)

Fetch == [t |-> "fetch"]

RECURSIVE Flatten(_)
Flatten(ss) == IF ss = <<>> THEN <<>> ELSE Head(ss) \o Flatten(Tail(ss))

\* The per-team failures that sync_week and sync_keepers swallow.
SwallowedWeekFaults ==
    {f \in WeekFaults(MaxFaults) :
        ~f.sb /\ f.write[1] \in {"none", "stat", "roster", "pstat"}}

SwallowedKeeperFaults ==
    {f \in KeeperFaults(MaxFaults) : f.write[1] \in {"none", "keeper"}}

\* The scope of sync_week: scoreboard, loop 2, categories, loop 3.
WeekScope(lg, s, w, f) ==
    LET OfTeam(t, ws) == SelectSeq(ws, LAMBDA x : x.id[4] = t)
    IN  <<Fetch, MatchupRow(lg, s, w)>>
        \o Flatten([t \in Teams |-> <<Fetch>> \o OfTeam(t, StatWrites(lg, w, f))])
        \o <<Row(Id("matchup_category", lg, w, 0))>>
        \o Flatten([t \in Teams |-> <<Fetch>> \o OfTeam(t, RosterWrites(lg, w, f))])

\* The scope of the keepers unit: the loop over the teams, the enrichment.
KeeperScope(lg, f) ==
    LET OfTeam(t, ws) == SelectSeq(ws, LAMBDA x : x.id[3] = t)
        inserts == KeeperWrites(lg, f)
    IN  Flatten([t \in Teams |-> <<Fetch>> \o OfTeam(t, inserts)])
        \o (IF Len(inserts) > 0 THEN <<[t |-> "enrich", lg |-> lg]>> ELSE <<>>)

UnitRun(unit, key, calls, scope) ==
    [op |-> "unit", unit |-> unit, key |-> key, calls |-> calls,
     ws |-> scope \o <<LogDone(key)>>]

UnitRuns ==
    {UnitRun("metadata", LogKey(Latest, "metadata", 0), MetadataCalls,
             MetadataWrites(Latest, s)) : s \in Sources}
    \cup {UnitRun("draft", LogKey(Latest, "draft", 0), 1, DraftWrites(Latest))}
    \cup {UnitRun("transactions", LogKey(Latest, "transactions", 0), 1,
                  TransactionWrites(Latest))}
    \cup {UnitRun("weekly", LogKey(Latest, "weekly", w), 0,
                  WeekScope(Latest, s, w, f)) :
             s \in Sources, w \in Weeks, f \in SwallowedWeekFaults}
    \cup {UnitRun("keepers", LogKey(lg, "keepers", 0), 0, KeeperScope(lg, f)) :
             lg \in Leagues, f \in SwallowedKeeperFaults}

RECURSIVE ApplyAll(_, _)
ApplyAll(s, ws) ==
    IF ws = <<>> THEN s
    ELSE ApplyAll(IF Head(ws) = Fetch THEN s ELSE Apply(s, Head(ws)), Tail(ws))

\* The committed stores a unit can be started on: one no attempt has
\* touched, one an attempt failed on, and for the transactions unit the
\* store of sync_incremental, which holds the rows of the attempt before
\* with their weeks assigned and whose log row was deleted.
UnitBases(u) ==
    {InitStore,
     [InitStore EXCEPT !.log[u.key] = [status |-> "failed", error |-> TRUE]]}
    \cup (IF u.unit = "transactions"
          THEN {[ApplyAll(InitStore, u.ws) EXCEPT
                    !.txweek = [t \in Txns |-> 1], !.log[u.key] = NoLog]}
          ELSE {})

UnitAt(phase, at) == [op |-> "unit", phase |-> phase, at |-> at, lost |-> FALSE]

CrashInit ==
    /\ src = SourceAtRest
    /\ SyncIdle
    /\ DbIdle
    /\ StandIdle
    /\ \E u \in UnitRuns : \E b \in UnitBases(u) :
          /\ arg = [op |-> "unit", unit |-> u.unit, key |-> u.key,
                    calls |-> u.calls, ws |-> u.ws, base |-> b]
          /\ db = [disk |-> b, conn |-> b, in_transaction |-> FALSE]
    /\ res = UnitAt("idle", 0)

Running == arg.op = "unit" /\ res.op = "unit"

\* _log_start, then the try block.
UnitStart ==
    /\ Running /\ res.phase = "idle"
    /\ db' = _log_start(db, arg.key)
    /\ res' = UnitAt("fetch", 0)
    /\ UNCHANGED <<arg, runVars, dbVars, standVars>>

\* An external call before the scope returns.
UnitFetch ==
    /\ Running /\ res.phase = "fetch" /\ res.at < arg.calls
    /\ res' = UnitAt("fetch", res.at + 1)
    /\ UNCHANGED <<db, arg, runVars, dbVars, standVars>>

\* with self.db.transaction():
UnitEnter ==
    /\ Running /\ res.phase = "fetch" /\ res.at = arg.calls
    /\ db' = TxEnter(db)
    /\ res' = UnitAt("scope", 0)
    /\ UNCHANGED <<arg, runVars, dbVars, standVars>>

\* The next statement of the scope.
UnitStatement ==
    /\ Running /\ res.phase = "scope" /\ res.at < Len(arg.ws)
    /\ db' = IF arg.ws[res.at + 1] = Fetch THEN db
             ELSE execute(db, arg.ws[res.at + 1])
    /\ res' = UnitAt("scope", res.at + 1)
    /\ UNCHANGED <<arg, runVars, dbVars, standVars>>

\* The scope ends normally.
UnitExit ==
    /\ Running /\ res.phase = "scope" /\ res.at = Len(arg.ws)
    /\ db' = TxExit(db, TRUE)
    /\ res' = UnitAt("done", res.at)
    /\ UNCHANGED <<arg, runVars, dbVars, standVars>>

\* The next call or statement raises and the exception leaves the try
\* block, through the scope if it is open.
UnitRaise ==
    /\ Running
    /\ \/ /\ res.phase = "fetch" /\ res.at < arg.calls
          /\ db' = db
       \/ /\ res.phase = "scope" /\ res.at < Len(arg.ws)
          /\ db' = TxAbort(db, TRUE)
    /\ res' = UnitAt("raised", res.at)
    /\ UNCHANGED <<arg, runVars, dbVars, standVars>>

\* except Exception: _log_fail.
UnitLogFail ==
    /\ Running /\ res.phase = "raised"
    /\ db' = _log_fail(db, arg.key)
    /\ res' = UnitAt("failed", res.at)
    /\ UNCHANGED <<arg, runVars, dbVars, standVars>>

\* The process stops: what the connection had not committed is gone.
UnitCrash ==
    /\ Running /\ res.phase # "idle"
    /\ db' = [disk |-> db.disk, conn |-> db.disk, in_transaction |-> FALSE]
    /\ res' = [op |-> "crashed", phase |-> res.phase, at |-> res.at,
               lost |-> db.conn # db.disk]
    /\ UNCHANGED <<arg, runVars, dbVars, standVars>>

CrashNext ==
    \/ UnitStart
    \/ UnitFetch
    \/ UnitEnter
    \/ UnitStatement
    \/ UnitExit
    \/ UnitRaise
    \/ UnitLogFail
    \/ UnitCrash

SpecCrash == CrashInit /\ [][CrashNext]_vars

----------------------------------------------------------------------------
(* The external calls and the delays of a sync operation, in the order of  *)
(* the code.  A call that raises inside a per-team try block skips the     *)
(* rest of the block, its _wait() included, and the loop goes on; a call   *)
(* that raises elsewhere ends the operation.                               *)

\* A call to the source; skip is the number of steps its exception skips,
\* 0 where the exception ends the operation.
Call(skip) == [k |-> "call", skip |-> skip]

\* self._wait()
Wait == [k |-> "wait", skip |-> 0]

PerTeam == Flatten([t \in Teams |-> <<Call(1), Wait>>])

MetadataSteps == <<Call(0), Call(0), Wait, Call(0), Wait, Call(0), Wait>>

DraftSteps == <<Call(0), Wait>>

TransactionSteps == <<Call(0), Wait>>

WeekSteps == <<Call(0), Wait>> \o PerTeam \o PerTeam

KeeperSteps == PerTeam

\* The steps of the units an operation runs; a unit already completed is
\* skipped and has no step.
SeasonSteps(meta, draft, txns, weeks) ==
    (IF meta THEN MetadataSteps ELSE <<>>)
    \o (IF draft THEN DraftSteps ELSE <<>>)
    \o (IF txns THEN TransactionSteps ELSE <<>>)
    \o Flatten([w \in 1..weeks |-> WeekSteps])

IncrementalSteps(meta, weeks) ==
    (IF meta THEN MetadataSteps ELSE <<>>)
    \o Flatten([w \in 1..weeks |-> WeekSteps])
    \o TransactionSteps

KeepersSteps(seasons) == Flatten([n \in 1..seasons |-> KeeperSteps])

SyncPrograms ==
    {[op |-> "sync", name |-> "sync_season",
      steps |-> SeasonSteps(m, d, t, w)] :
        m \in BOOLEAN, d \in BOOLEAN, t \in BOOLEAN, w \in 0..MaxWeek}
    \cup {[op |-> "sync", name |-> "sync_incremental",
           steps |-> IncrementalSteps(m, w)] : m \in BOOLEAN, w \in 0..MaxWeek}
    \cup {[op |-> "sync", name |-> "sync_keepers",
           steps |-> KeepersSteps(n)] : n \in 1..Cardinality(Leagues)}

\* Where the operation is: the steps done, the last of them, the
\* exceptions so far and whether a call followed a call with no delay
\* between them.
Trace(at, last, raised, close) ==
    [op |-> "trace", at |-> at, last |-> last, raised |-> raised,
     close |-> close]

ThrottleInit ==
    /\ db = NewDb
    /\ src = SourceAtRest
    /\ SyncIdle
    /\ DbIdle
    /\ StandIdle
    /\ arg \in SyncPrograms
    /\ res = Trace(0, "none", 0, FALSE)

NextStep == arg.steps[res.at + 1]

Stepping == arg.op = "sync" /\ res.op = "trace" /\ res.at < Len(arg.steps)

\* The call is made and returns.
CallReturns ==
    /\ Stepping /\ NextStep.k = "call"
    /\ res' = Trace(res.at + 1, "call", res.raised,
                    res.close \/ res.last = "call")
    /\ UNCHANGED <<arg, syncVars, dbVars, standVars>>

\* The call is made and raises.
CallRaises ==
    /\ Stepping /\ NextStep.k = "call"
    /\ res.raised < MaxFaults
    /\ res' = Trace(IF NextStep.skip = 0 THEN Len(arg.steps)
                    ELSE res.at + 1 + NextStep.skip,
                    "call", res.raised + 1, res.close \/ res.last = "call")
    /\ UNCHANGED <<arg, syncVars, dbVars, standVars>>

Waits ==
    /\ Stepping /\ NextStep.k = "wait"
    /\ res' = Trace(res.at + 1, "wait", res.raised, res.close)
    /\ UNCHANGED <<arg, syncVars, dbVars, standVars>>

ThrottleNext ==
    \/ CallReturns
    \/ CallRaises
    \/ Waits

SpecThrottle == ThrottleInit /\ [][ThrottleNext]_vars

----------------------------------------------------------------------------
(* _repair_league_weeks on any stored league row and any matchup rows.     *)

\* The league rows the store may hold for the league: the week columns
\* as the source reported them (swapped, zero, too large), or no row.
RepairLeagues ==
    [present : {TRUE}, current_week : {1}, start_week : 0..(MaxWeek + 1),
     end_week : 0..(MaxWeek + 1), playoff_start_week : 0..MaxWeek,
     is_finished : {0, 1}] \cup {NoRow}

RepairInit ==
    /\ src = SourceAtRest
    /\ SyncIdle
    /\ DbIdle
    /\ StandIdle
    /\ \E l \in RepairLeagues :
          LET store == [InitStore EXCEPT !.league[Latest] = l]
          IN  db = [disk |-> store, conn |-> store, in_transaction |-> FALSE]
    /\ arg = [op |-> "repair"]
    /\ res = NoCall

\* sync_week stores a matchup of a week, flagged playoff or consolation
\* (1) or neither (0).
MatchupStore ==
    /\ arg.op = "repair"
    /\ \E w \in Weeks, flag \in {0, 1} :
          /\ Id("matchup", Latest, w, flag) \notin db.conn.rows
          /\ db' = execute(db, Row(Id("matchup", Latest, w, flag)))
    /\ res' = NoCall
    /\ UNCHANGED <<arg, runVars, dbVars, standVars>>

LeagueRepair ==
    /\ arg.op = "repair"
    /\ db' = _repair_league_weeks(db, Latest)
    /\ res' = [op |-> "repair", before |-> db.disk.league[Latest]]
    /\ UNCHANGED <<arg, runVars, dbVars, standVars>>

RepairNext ==
    \/ MatchupStore
    \/ LeagueRepair

SpecRepair == RepairInit /\ [][RepairNext]_vars

----------------------------------------------------------------------------
(* _backfill_transaction_weeks with the dates of the matchup rows.  Dates  *)
(* are day numbers: week w runs on day w and transaction n is dated day   *)
(* n; 0 is the empty string the sync stores for a date the source left    *)
(* out, and the NULL week of a transaction.                                *)

NoDate == 0

NullWeek == 0

\* The (week, week_start, week_end) of the matchup rows of week w.
WeekRow(w, hasStart, hasEnd) ==
    [week |-> w, week_start |-> IF hasStart THEN w ELSE NoDate,
     week_end |-> IF hasEnd THEN w ELSE NoDate]

\* A transaction_record row as sync_transactions stores it.
TxnRow(n, stamped) ==
    [transaction_key |-> n, timestamp |-> IF stamped THEN n ELSE NoDate,
     week |-> NullWeek]

\* A variant of the test that takes a week for its end date alone.
WeekHoldsByEnd(w, ts_date) == ts_date <= w.week_end

\* if w["week_start"] and ts_date <= w["week_end"]
WeekHolds(w, ts_date) == w.week_start # NoDate /\ ts_date <= w.week_end

\* The loop over the weeks, with its break.
RECURSIVE FirstWeek(_, _, _)
FirstWeek(weeks, ts_date, assigned) ==
    IF weeks = <<>> THEN assigned
    ELSE IF WeekHolds(Head(weeks), ts_date) THEN Head(weeks).week
    ELSE FirstWeek(Tail(weeks), ts_date, assigned)

\* weeks: function week -> row over the weeks stored; txns: function
\* transaction_key -> row.  The result is the transaction table.
backfill_weeks(weeks, txns) ==
    LET ordered == Ascending(weeks, DOMAIN weeks)
        picked == {n \in DOMAIN txns :
                      txns[n].week = NullWeek /\ txns[n].timestamp # NoDate}
    IN  IF ordered = <<>> \/ picked = {} THEN txns
        ELSE [n \in DOMAIN txns |->
                 IF n \in picked
                 THEN [txns[n] EXCEPT !.week =
                          FirstWeek(ordered, txns[n].timestamp,
                                    ordered[Len(ordered)].week)]
                 ELSE txns[n]]

BackfillInit ==
    /\ db = NewDb
    /\ src = SourceAtRest
    /\ SyncIdle
    /\ DbIdle
    /\ StandIdle
    /\ arg = [op |-> "backfill", weeks |-> <<>>, txns |-> <<>>]
    /\ res = NoCall

\* sync_week stores the matchups of a week with the dates of the source.
WeekStore ==
    /\ arg.op = "backfill"
    /\ \E w \in Weeks \ DOMAIN arg.weeks, hasStart \in BOOLEAN, hasEnd \in BOOLEAN :
          arg' = [arg EXCEPT !.weeks = Put(@, w, WeekRow(w, hasStart, hasEnd))]
    /\ res' = NoCall
    /\ UNCHANGED <<syncVars, dbVars, standVars>>

\* sync_transactions stores a transaction, its week NULL.
TxnStore ==
    /\ arg.op = "backfill"
    /\ \E n \in Txns \ DOMAIN arg.txns, stamped \in BOOLEAN :
          arg' = [arg EXCEPT !.txns = Put(@, n, TxnRow(n, stamped))]
    /\ res' = NoCall
    /\ UNCHANGED <<syncVars, dbVars, standVars>>

BackfillCall ==
    /\ arg.op = "backfill"
    /\ arg' = [arg EXCEPT !.txns = backfill_weeks(arg.weeks, @)]
    /\ res' = [op |-> "backfill", before |-> arg.txns]
    /\ UNCHANGED <<syncVars, dbVars, standVars>>

BackfillNext ==
    \/ WeekStore
    \/ TxnStore
    \/ BackfillCall

SpecBackfill == BackfillInit /\ [][BackfillNext]_vars

----------------------------------------------------------------------------
(* sync_week, the derivation of the matchup_category rows of the matchup   *)
(* of team 1 and team 2.                                                    *)

Cats == 1..NumCats

\* team_stats has no value for the stat (None), or the value is text that
\* float() rejects, such as "-".
NoValue == -1

TextValue == -2

CatValues == {NoValue, TextValue} \cup (1..MaxStat)

\* stat_category rows of the league: stat_id -> sort_order, is_scoring.
CategoryTables == [Cats -> [sort_order : {0, 1}, is_scoring : {0, 1}]]

\* team_stats.get(team_key, {}).get(sid): a team whose fetch failed has no
\* entry in team_stats.
StatOf(stats, t, sid) == IF stats[t] = <<>> THEN NoValue ELSE stats[t][sid]

\* A variant in which the greater value wins whatever the sort order.
CategoryWinnerHigher(cat, v1, v2) ==
    IF v1 = NoValue \/ v2 = NoValue THEN NoWinner
    ELSE IF v1 = TextValue \/ v2 = TextValue THEN NoWinner
    ELSE IF v1 > v2 THEN 1 ELSE IF v2 > v1 THEN 2 ELSE NoWinner

\* winner: None unless both values are there and float() takes both.
CategoryWinner(cat, v1, v2) ==
    IF v1 = NoValue \/ v2 = NoValue THEN NoWinner
    ELSE IF v1 = TextValue \/ v2 = TextValue THEN NoWinner
    ELSE IF cat.sort_order = 1
         THEN (IF v1 > v2 THEN 1 ELSE IF v2 > v1 THEN 2 ELSE NoWinner)
         ELSE (IF v1 < v2 THEN 1 ELSE IF v2 < v1 THEN 2 ELSE NoWinner)

\* The matchup_category rows written for the matchup, by stat_id: one
\* INSERT OR REPLACE for each category of scoring_stats.
matchup_categories(cats, stats) ==
    LET scoring_stats == {sid \in Cats : cats[sid].is_scoring = 1}
    IN  [sid \in scoring_stats |->
            [stat_id |-> sid, v1 |-> StatOf(stats, 1, sid),
             v2 |-> StatOf(stats, 2, sid),
             winner |-> CategoryWinner(cats[sid], StatOf(stats, 1, sid),
                                       StatOf(stats, 2, sid))]]

CategoryInit ==
    /\ db = NewDb
    /\ src = SourceAtRest
    /\ SyncIdle
    /\ DbIdle
    /\ StandIdle
    /\ arg \in {[op |-> "category", cats |-> c, stats |-> <<<<>>, <<>>>>] :
                   c \in CategoryTables}
    /\ res = NoCall

\* Loop 2 of sync_week fetched the stats of a team.
TeamStats ==
    /\ arg.op = "category"
    /\ \E t \in {1, 2}, f \in [Cats -> CatValues] :
          /\ arg.stats[t] = <<>>
          /\ arg' = [arg EXCEPT !.stats[t] = f]
    /\ res' = NoCall
    /\ UNCHANGED <<syncVars, dbVars, standVars>>

CategoryDerive ==
    /\ arg.op = "category"
    /\ res' = [op |-> "category", rows |-> matchup_categories(arg.cats, arg.stats)]
    /\ UNCHANGED <<arg, syncVars, dbVars, standVars>>

CategoryNext ==
    \/ TeamStats
    \/ CategoryDerive

SpecCategory == CategoryInit /\ [][CategoryNext]_vars

----------------------------------------------------------------------------
(* The keepers unit of one season of sync_keepers, on its data: the        *)
(* flagged keepers of the week 1 rosters, _draft_keeper_fallback and the   *)
(* enrichment of round_cost. A player is known by the number of the pick   *)
(* that drafted it; player MaxPicks + 1 was not drafted.                   *)

KeeperPlayers == 1..(MaxPicks + 1)

\* draft_pick rows of the league: pick -> team_key.
Drafts == UNION {[1..n -> Teams] : n \in 0..MaxPicks}

\* keeper.round_cost IS NULL.
NullCost == 0

\* ROW_NUMBER() OVER (PARTITION BY dp.team_key ORDER BY dp.pick)
team_pick_idx(picks, i) == Cardinality({j \in 1..i : picks[j] = picks[i]})

\* COUNT(*) OVER (PARTITION BY dp.team_key)
total_picks(picks, t) == Cardinality({j \in DOMAIN picks : picks[j] = t})

\* The keeper rows of the league after the loop over the rosters: one row,
\* with no round_cost, for each player a roster flags as kept.
roster_keepers(flagged) ==
    [p \in {q \in KeeperPlayers : flagged[q] # 0} |->
        [team_key |-> flagged[p], round_cost |-> NullCost]]

\* if first_count >= last_count: mode = "first"
DetectFirst(first_count, last_count) == first_count >= last_count

_draft_keeper_fallback(keepers, picks, num_teams, per_team) ==
    LET total_existing == Cardinality(DOMAIN keepers)
        expected_total == num_teams * per_team
        first_team == CHOOSE t \in Teams :
                         /\ total_picks(picks, t) > 0
                         /\ \A u \in Teams : total_picks(picks, u) > 0 => t <= u
        total_picks_per_team == total_picks(picks, first_team)
        first_n == 1..per_team
        last_n == (total_picks_per_team - per_team + 1)..total_picks_per_team
        keeper_pks == DOMAIN keepers
        first_count == Cardinality({i \in DOMAIN picks :
                          i \in keeper_pks /\ team_pick_idx(picks, i) \in first_n})
        last_count == Cardinality({i \in DOMAIN picks :
                          /\ i \in keeper_pks
                          /\ team_pick_idx(picks, i) \notin first_n
                          /\ team_pick_idx(picks, i) \in last_n})
        first == DetectFirst(first_count, last_count)
        keeper_positions == IF first THEN first_n ELSE last_n
        missing == {i \in DOMAIN picks :
                       /\ team_pick_idx(picks, i) \in keeper_positions
                       /\ i \notin keeper_pks}
    IN  IF total_existing = 0 \/ total_existing >= expected_total \/ picks = <<>>
        THEN [added |-> 0, mode |-> "none", keeper |-> keepers]
        ELSE [added |-> Cardinality(missing),
              mode |-> IF first THEN "first" ELSE "last",
              keeper |-> [p \in keeper_pks \cup missing |->
                             IF p \in missing
                             THEN [team_key |-> picks[p],
                                   round_cost |-> team_pick_idx(picks, p)]
                             ELSE keepers[p]]]

\* UPDATE keeper SET round_cost = sub.team_pick_idx ... WHERE the keeper's
\* team and player are those of a draft pick of the league.
enrich_round_cost(keepers, picks) ==
    [p \in DOMAIN keepers |->
        IF p \in DOMAIN picks /\ picks[p] = keepers[p].team_key
        THEN [keepers[p] EXCEPT !.round_cost = team_pick_idx(picks, p)]
        ELSE keepers[p]]

\* The unit: the flagged rows, the fallback for basketball, the enrichment
\* when the unit stored a row.
keepers_unit(sport, picks, flagged) ==
    LET before == roster_keepers(flagged)
        fb == IF sport = "nba"
              THEN _draft_keeper_fallback(before, picks, NumTeams, KeepersPerTeam)
              ELSE [added |-> 0, mode |-> "skipped", keeper |-> before]
        total == Cardinality(DOMAIN before) + fb.added
    IN  [op |-> "keepers", before |-> before, added |-> fb.added,
         mode |-> fb.mode, fallback |-> fb.keeper, total |-> total,
         keeper |-> IF total > 0 THEN enrich_round_cost(fb.keeper, picks)
                    ELSE fb.keeper]

KeeperInit ==
    /\ db = NewDb
    /\ src = SourceAtRest
    /\ SyncIdle
    /\ DbIdle
    /\ StandIdle
    /\ arg \in {[op |-> "keepers", sport |-> s, picks |-> d,
                 flagged |-> [p \in KeeperPlayers |-> 0]] :
                   s \in {"nba", "mlb"}, d \in Drafts}
    /\ res = NoCall

\* A week 1 roster holds a player with the kept flag.
RosterKeeper ==
    /\ arg.op = "keepers"
    /\ Cardinality({p \in KeeperPlayers : arg.flagged[p] # 0}) < MaxFlagged
    /\ \E p \in KeeperPlayers, t \in Teams :
          /\ arg.flagged[p] = 0
          /\ arg' = [arg EXCEPT !.flagged[p] = t]
    /\ res' = NoCall
    /\ UNCHANGED <<syncVars, dbVars, standVars>>

KeepersUnit ==
    /\ arg.op = "keepers"
    /\ res' = keepers_unit(arg.sport, arg.picks, arg.flagged)
    /\ UNCHANGED <<arg, syncVars, dbVars, standVars>>

KeeperNext ==
    \/ RosterKeeper
    \/ KeepersUnit

SpecKeepers == KeeperInit /\ [][KeeperNext]_vars

----------------------------------------------------------------------------
(* sync_standings: the standings of every season are fetched again and     *)
(* written to the team rows.                                               *)

\* A team row: absent, or with its name and the two standings columns, each
\* NULL (NoFinish) or a number.
TeamStates ==
    {NoRow}
    \cup {[present |-> TRUE, name |-> "manager", finish |-> NoFinish,
           playoff_seed |-> NoFinish],
          [present |-> TRUE, name |-> "manager", finish |-> 2, playoff_seed |-> 1]}

\* A store with team rows, a league row, a matchup row and a sync_log row.
StandingStore(teams) ==
    [log    |-> [EmptyStore.log EXCEPT ![LogKey(Latest, "metadata", 0)] =
                    [status |-> "completed", error |-> FALSE]],
     league |-> InitStore.league,
     rows   |-> {Id("matchup", 1, 1, 1)},
     txweek |-> EmptyStore.txweek,
     team   |-> teams]

\* What the source lists for a team: no team_standings, or a rank and a
\* playoff seed; a rank may be absent (NoFinish) or text int() rejects.
TeamEntries ==
    {[ts |-> FALSE, rank |-> NoFinish, seed |-> NoFinish]}
    \cup [ts : {TRUE}, rank : {NoFinish, 1, TextValue}, seed : {NoFinish, 1}]

\* The answer of get_league_standings for a season: the call raises, or the
\* teams in the order of the standings.
LeagueStandings ==
    {[ok |-> FALSE, teams |-> <<>>]} \cup [ok : {TRUE}, teams : [Teams -> TeamEntries]]

\* UPDATE team SET finish=?, playoff_seed=? WHERE league_key=? AND team_key=?
StandingUpdate(lg, t, e) ==
    [t |-> "standing", lg |-> lg, team |-> t, finish |-> e.rank, seed |-> e.seed]

\* The loop over standings.teams from team t on, inside the scope: a team
\* without team_standings is passed over, a rank that is no number raises.
RECURSIVE StandingLoop(_, _, _, _)
StandingLoop(d, lg, teams, t) ==
    IF t \notin DOMAIN teams THEN [db |-> d, raised |-> FALSE]
    ELSE IF ~teams[t].ts THEN StandingLoop(d, lg, teams, t + 1)
    ELSE IF teams[t].rank = TextValue THEN [db |-> d, raised |-> TRUE]
    ELSE CHOOSE r \in {StandingLoop(d1, lg, teams, t + 1) :
                          d1 \in {execute(d, StandingUpdate(lg, t, teams[t]))}} : TRUE

\* A variant of the season step that opens no transaction scope.
StandingsSeasonUnscoped(d, lg, st) ==
    IF ~st.ok THEN d ELSE StandingLoop(d, lg, st.teams, 1).db

\* One season of sync_standings: the fetch, the scope with the updates; an
\* exception of either ends the season and is swallowed.
standings_season(d, lg, st) ==
    IF ~st.ok THEN d
    ELSE LET outer == TxOuter(d)
             r == StandingLoop(TxEnter(d), lg, st.teams, 1)
         IN  IF r.raised THEN TxAbort(r.db, outer) ELSE TxExit(r.db, outer)

RECURSIVE StandingsFrom(_, _, _)
StandingsFrom(d, lg, answers) ==
    IF lg \notin Leagues THEN d
    ELSE CHOOSE r \in {StandingsFrom(d1, lg + 1, answers) :
                          d1 \in {standings_season(d, lg, answers[lg])}} : TRUE

sync_standings(d, answers) == StandingsFrom(d, 1, answers)

StandingsInit ==
    /\ db = NewDb
    /\ src = SourceAtRest
    /\ SyncIdle
    /\ DbIdle
    /\ StandIdle
    /\ arg \in {[op |-> "standings", runs |-> 0,
                 db |-> [disk |-> StandingStore(t), conn |-> StandingStore(t),
                         in_transaction |-> FALSE]] :
                   t \in [Leagues \X Teams -> TeamStates]}
    /\ res = NoCall

SyncStandings ==
    /\ arg.op = "standings"
    /\ arg.runs < MaxRuns
    /\ \E answers \in [Leagues -> LeagueStandings] :
          /\ arg' = [arg EXCEPT !.db = sync_standings(arg.db, answers),
                                !.runs = @ + 1]
          /\ res' = [op |-> "standings", before |-> arg.db, answers |-> answers]
    /\ UNCHANGED <<syncVars, dbVars, standVars>>

StandingsNext == SyncStandings

SpecStandings == StandingsInit /\ [][StandingsNext]_vars

----------------------------------------------------------------------------
(* _repair_league_weeks stopped between its statements, and the repair of  *)
(* the sync_season run that follows.  The units of that run are skipped,   *)
(* their sync_log rows being 'completed', so the run brings no matchup.    *)

\* The UPDATE statements of _repair_league_weeks, in order.
RepairWrites(d, lg) ==
    LET weeks == MatchupWeeks(d.conn, lg)
        league == d.conn.league[lg]
        playoff == PlayoffWeeks(d.conn, lg)
        first == [t |-> "weeks", lg |-> lg, start |-> Min(weeks),
                  end |-> Max(weeks), cur |-> RepairCurrent(league, Max(weeks))]
    IN  IF weeks = {} \/ ~league.present THEN <<>>
        ELSE IF league.start_week = Min(weeks) /\ league.end_week = Max(weeks)
        THEN <<>>
        ELSE IF playoff = {} THEN <<first>>
        ELSE <<first, [t |-> "playoff", lg |-> lg, val |-> Min(playoff)]>>

ResumeInit ==
    /\ src = SourceAtRest
    /\ SyncIdle
    /\ DbIdle
    /\ StandIdle
    /\ \E l \in RepairLeagues :
          LET store == [InitStore EXCEPT !.league[Latest] = l]
          IN  db = [disk |-> store, conn |-> store, in_transaction |-> FALSE]
    /\ arg = [op |-> "repair", stopped |-> FALSE, start |-> NewDb]
    /\ res = NoCall

\* sync_week stores a matchup, before the repair.
ResumeMatchup == ~arg.stopped /\ MatchupStore

\* The process stops inside the repair after k of its statements; what the
\* statements committed stays on disk.
RepairStop ==
    /\ arg.op = "repair"
    /\ ~arg.stopped
    /\ \E k \in 0..Len(RepairWrites(db, Latest)) :
          LET d == ExecAll(db, SubSeq(RepairWrites(db, Latest), 1, k))
          IN  db' = [disk |-> d.disk, conn |-> d.disk, in_transaction |-> FALSE]
    /\ arg' = [arg EXCEPT !.stopped = TRUE, !.start = db]
    /\ res' = NoCall
    /\ UNCHANGED <<runVars, dbVars, standVars>>

\* The repair of the run that follows, to its end.
RepairAgain ==
    /\ arg.op = "repair"
    /\ arg.stopped
    /\ db' = _repair_league_weeks(db, Latest)
    /\ res' = [op |-> "resume", before |-> db.disk.league[Latest]]
    /\ UNCHANGED <<arg, runVars, dbVars, standVars>>

ResumeNext ==
    \/ ResumeMatchup
    \/ RepairStop
    \/ RepairAgain

SpecResume == ResumeInit /\ [][ResumeNext]_vars

----------------------------------------------------------------------------
(* ManagerHistory.franchise_stats: the championships of a franchise, from  *)
(* the season records of the managers that owned it.  The store holds no   *)
(* matchup: wins and losses are 0 and the closing sort keeps the order of  *)
(* the definitions.                                                        *)

\* rec["season_records"] of a manager: season -> the finish of the
\* manager's team of that season (the last one, were there several).
ManagerSeasonRecords(teams, guid) ==
    LET mine == {i \in DOMAIN teams : teams[i].manager_guid = guid}
        seasons == {teams[i].season : i \in mine}
    IN  [s \in seasons |->
            [season |-> s,
             finish |-> teams[Max({i \in mine : teams[i].season = s})].finish]]

\* The season records of an ownership entry that lie in its span.
OwnedSeasons(teams, owner) ==
    LET recs == ManagerSeasonRecords(teams, owner.guid)
    IN  {s \in DOMAIN recs : ~(s < owner.from) /\ ~(owner.to # NoTo /\ s > owner.to)}

\* championships += 1 for every season record in the span of an ownership
\* entry whose finish is 1.
FranchiseChampionships(teams, fdef) ==
    Cardinality({k \in (DOMAIN fdef.managers) \X Leagues :
                    /\ k[2] \in OwnedSeasons(teams, fdef.managers[k[1]])
                    /\ ManagerSeasonRecords(teams, fdef.managers[k[1]].guid)[k[2]].finish = 1})

franchise_stats(teams, defs) ==
    [i \in DOMAIN defs |->
        [id |-> FranchiseId(i - 1),
         championships |-> FranchiseChampionships(teams, defs[i])]]

FranchiseInit ==
    /\ db = NewDb
    /\ src = SourceAtRest
    /\ SyncIdle
    /\ DbIdle
    /\ StandIdle
    /\ arg \in {[op |-> "franchise", teams |-> t, defs |-> d] :
                   t \in TeamSeasons, d \in FranchiseDefs}
    /\ res = NoCall

FranchiseCall ==
    /\ arg.op = "franchise"
    /\ res' = [op |-> "franchise", list |-> franchise_stats(arg.teams, arg.defs),
               managers |-> managers(arg.teams, <<>>)]
    /\ UNCHANGED <<arg, syncVars, dbVars, standVars>>

FranchiseNext == FranchiseCall

SpecFranchise == FranchiseInit /\ [][FranchiseNext]_vars

----------------------------------------------------------------------------
(* The claims.                                                             *)

Disk == db.disk

EventKey == LogKey(ev.lg, ev.unit, ev.week)

\* The unit the next step invokes, from the place of the run.
UnitPcs == {"metadata", "draft", "transactions", "weekly", "keepers"}

CurKey ==
    CASE pc = "weekly"  -> LogKey(Latest, "weekly", wk)
      [] pc = "keepers" -> LogKey(ks, "keepers", 0)
      [] OTHER          -> LogKey(Latest, pc, 0)

\* C1: a second sync_season run, started from the store a sync_season run
\* that returned left, executes no unit and leaves the committed store as
\* it was, for a finished season and for a season in progress.
C1_Idempotent ==
    (base.set /\ run = "season") =>
        (Disk = base.store /\ ev.outcome \in {"none", "skip"})

\* C1, for finished seasons only: the part of the claim the code keeps.
C1_Finished ==
    (base.set /\ run = "season" /\ src.is_finished = 1) =>
        (Disk = base.store /\ ev.outcome \in {"none", "skip"})

\* C2: a unit operation (sync_metadata, sync_draft, sync_transactions,
\* sync_week, the keepers step of a season) invoked while its sync_log row
\* is 'completed' calls the source not at all and changes nothing in the
\* database, its own log row included.
C2_SkipCompleted ==
    [][(pc \in UnitPcs /\ Status(db, CurKey) = "completed") =>
          (db' = db /\ ev'.outcome = "skip" /\ ~ev'.called)]_vars

\* A completed weekly unit and a completed keepers step were invoked again.
C2_Witness ==
    /\ ev.unit = "keepers"
    /\ ev.was = "completed"
    /\ ev.outcome = "skip"
    /\ Status(db, LogKey(Latest, "weekly", 1)) = "completed"

\* C3: when a write of a unit raises, no row the attempt had written is in
\* the committed store once the unit operation has ended, and the log row
\* of the unit is 'failed'; for every write of every unit.
C3_Atomic ==
    ev.wraised => (~ev.leaked /\ Disk.log[EventKey].status = "failed")

\* C4 as claimed: a unit that fails has its log row 'failed' with the error
\* message and its exception ends the operation that invoked it; for every
\* unit, the keepers step included.
C4_Reraised ==
    ev.outcome \in {"raise", "fail"} =>
        /\ Disk.log[EventKey] = [status |-> "failed", error |-> TRUE]
        /\ run = "idle"
        /\ ret = "raised"

\* C4 as amended: the log row is 'failed' with the error message for every
\* unit; the exception of sync_metadata, sync_draft, sync_transactions and
\* sync_week ends sync_season or sync_incremental; the exception of a
\* keepers step ends nothing: sync_keepers goes on to the next season and
\* returns.
C4_FailureLogged ==
    /\ ev.outcome \in {"raise", "fail"} =>
          Disk.log[EventKey] = [status |-> "failed", error |-> TRUE]
    /\ ev.outcome = "raise" =>
          (ev.unit # "keepers" /\ run = "idle" /\ ret = "raised")
    /\ ev.outcome = "fail" =>
          (ev.unit = "keepers" /\ run = "keepers" /\ ret = "none"
           /\ pc = (IF ev.lg + 1 \in Leagues THEN "keepers" ELSE "lineage"))
    /\ (run = "keepers" /\ pc = "lineage") => ENABLED StepLineage

\* The keepers step of the first season failed and sync_keepers is at the
\* second season.
C4_Witness ==
    /\ ev.unit = "keepers"
    /\ ev.lg = 1
    /\ ev.outcome = "fail"
    /\ pc = "keepers"
    /\ ks = 2

SeasonKeys ==
    {LogKey(Latest, u, 0) : u \in {"metadata", "draft", "transactions"}}
    \cup {LogKey(Latest, "weekly", w) : w \in Weeks}

\* Every unit of the season is 'completed': the three first units, every
\* week sync_season goes through, and no log row is left otherwise.
SeasonCompleted ==
    /\ \A u \in {"metadata", "draft", "transactions"} :
          Disk.log[LogKey(Latest, u, 0)].status = "completed"
    /\ \A w \in Weeks :
          Disk.log[LogKey(Latest, "weekly", w)].status \in {"none", "completed"}
    /\ \A w \in 1..LastWeek(Disk.league[Latest]) :
          Disk.log[LogKey(Latest, "weekly", w)].status = "completed"

\* C5: the log row of a failed unit stays 'failed' until that unit is
\* invoked again; that invocation does not skip: it executes the unit and
\* calls the source; a unit that was 'completed' is skipped; and
\* sync_season repeated against a source that stops failing ends with
\* every unit of the season 'completed'.
C5_Retry ==
    /\ [][\A k \in SeasonKeys :
            (Status(db, k) = "failed" /\ ~(pc \in UnitPcs /\ CurKey = k)) =>
                Status(db', k) = "failed"]_vars
    /\ [][(pc \in UnitPcs /\ Status(db, CurKey) = "failed") =>
            (ev'.was = "failed" /\ ev'.outcome # "skip" /\ ev'.called)]_vars
    /\ [][(pc \in UnitPcs /\ Status(db, CurKey) = "completed") =>
            ev'.outcome = "skip"]_vars
    /\ <>[]SeasonCompleted

\* A unit that had failed was executed again and completed, while the unit
\* before it was skipped as completed.
C5_Witness ==
    /\ ev.unit = "draft"
    /\ ev.was = "failed"
    /\ ev.outcome = "done"
    /\ Disk.log[LogKey(Latest, "metadata", 0)].status = "completed"

Completed(unit, week) == Disk.log[LogKey(Latest, unit, week)].status = "completed"

Rank(p) ==
    CASE p = "metadata"     -> 1
      [] p = "draft"        -> 2
      [] p = "transactions" -> 3
      [] p = "weekly"       -> 4
      [] p = "backfill"     -> 5
      [] p = "repair"       -> 6
      [] OTHER              -> 0

\* C6: within one sync_season the units start in the order metadata,
\* draft, transactions, the weeks in ascending order, backfill, repair; a
\* unit starts only when every unit before it is 'completed'; and after a
\* unit raised nothing more of the invocation is executed.
C6_Order ==
    /\ [](run = "season" =>
            /\ Rank(pc) >= 2 => Completed("metadata", 0)
            /\ Rank(pc) >= 3 => Completed("draft", 0)
            /\ Rank(pc) >= 4 => Completed("transactions", 0)
            /\ pc = "weekly" => \A w \in 1..(wk - 1) : Completed("weekly", w)
            /\ Rank(pc) >= 5 => \A w \in 1..hi : Completed("weekly", w))
    /\ [](ev.outcome = "raise" => run = "idle")
    /\ [][(run = "season" /\ run' = "season") =>
            \/ Rank(pc') = Rank(pc) + 1
            \/ (pc = "transactions" /\ pc' = "backfill")
            \/ (pc = "weekly" /\ pc' = "weekly" /\ wk' = wk + 1)
            \/ (pc = "weekly" /\ pc' = "backfill" /\ wk = hi)]_vars

\* sync_season is at the repair pass after two weekly units.
C6_Witness ==
    /\ run = "season"
    /\ pc = "repair"
    /\ hi >= 2
    /\ ev.unit = "none"

\* C7: when only stat fetches and roster fetches of sync_week raise, for
\* any teams, sync_week does not raise, the matchup rows of the week and
\* the rows of every team whose fetch went through are committed, the log
\* row of the week is 'completed', and the week is not fetched again.
C7_BestEffort ==
    /\ [](( /\ ev.unit = "weekly"
            /\ ev.was # "completed"
            /\ ~ev.fraised
            /\ ~ev.wraised) =>
            /\ ev.outcome = "done"
            /\ Completed("weekly", ev.week)
            /\ ev.week \in MatchupWeeks(Disk, Latest)
            /\ Id("matchup_category", Latest, ev.week, 0) \in Disk.rows
            /\ \A t \in Teams \ ev.stat :
                  Id("team_weekly_score", Latest, ev.week, t) \in Disk.rows
            /\ \A t \in Teams \ ev.roster :
                  /\ Id("weekly_roster", Latest, ev.week, t) \in Disk.rows
                  /\ Id("player_weekly_stat", Latest, ev.week, t) \in Disk.rows)
    /\ [][\A w \in Weeks :
            Status(db, LogKey(Latest, "weekly", w)) = "completed" =>
                /\ Status(db', LogKey(Latest, "weekly", w)) = "completed"
                /\ (pc = "weekly" /\ wk = w) => ~ev'.called]_vars

\* A week was synced while the stat fetch of a team raised.
C7_Witness ==
    /\ ev.unit = "weekly"
    /\ ev.stat # {}
    /\ ev.outcome = "done"
    /\ Completed("weekly", ev.week)

\* C8: in any nesting of transaction() scopes and execute() calls, nothing
\* is committed between entering the outermost scope and its normal exit;
\* leaving an inner scope, normally or by an exception, changes neither
\* the connection nor the committed store; an exception leaving the
\* outermost scope takes back every write made inside it; and after the
\* outermost scope is left, either way, the flag is clear and an
\* execute() commits on its own.
C8_Nested ==
    /\ [](db.in_transaction <=> scopes # <<>>)
    /\ [](scopes # <<>> => db.disk.rows = reg.mark)
    /\ [][scopes # <<>> /\ db'.disk # db.disk =>
            Len(scopes) = 1 /\ reg'.last = "exit"]_vars
    /\ [][Len(scopes) > 1 /\ reg'.last \in {"exit", "raise"} => db' = db]_vars
    /\ [][Len(scopes) = 1 /\ reg'.last = "exit" =>
            db' = [disk |-> db.conn, conn |-> db.conn, in_transaction |-> FALSE]]_vars
    /\ [][Len(scopes) = 1 /\ reg'.last = "raise" =>
            db' = [disk |-> db.disk, conn |-> db.disk, in_transaction |-> FALSE]]_vars
    /\ []((scopes = <<>> /\ reg.last = "raise") =>
            /\ db.conn.rows = reg.mark
            /\ db.disk.rows = reg.mark)
    /\ [][scopes = <<>> /\ reg'.last = "execute" =>
            db'.disk = db'.conn /\ db'.disk.rows # {}]_vars

\* An exception left the outermost scope after a row new to the store was
\* written inside it, with a scope nested in it; the row is gone.
C8_Witness ==
    /\ scopes = <<>>
    /\ reg.last = "raise"
    /\ reg.nested
    /\ reg.inside \ reg.mark # {}
    /\ db.conn.rows = reg.mark

\* The matchups through the week of the last call that a team of the
\* league played against a team of the league.
Played(tk) ==
    Cardinality({i \in DOMAIN matchRows :
        /\ matchRows[i].week <= through
        /\ tk \in {matchRows[i].team_key_1, matchRows[i].team_key_2}
        /\ {matchRows[i].team_key_1, matchRows[i].team_key_2} \subseteq Range(teamRows)})

\* C9: standings(W) credits one result to each side of every matchup
\* through week W, a tie to both when the row has no winner, so that
\* wins + losses + ties of a team is the number of its matchups.
C9_TieCredit ==
    through > 0 =>
        \A i \in DOMAIN table :
            table[i].wins + table[i].losses + table[i].ties
                = Played(table[i].team_key)

\* C10: the result of standings(W) is the same in whatever order the
\* matchup rows are read; it is sorted by wins descending, then losses
\* ascending; teams equal in both are in the order of the team rows; and
\* the ranks are 1..n in list order.
C10_Deterministic ==
    through > 0 =>
        /\ table = standings(teamRows, matchRows, through)
        /\ Len(table) = Len(teamRows)
        /\ {table[i].team_key : i \in DOMAIN table} = Range(teamRows)
        /\ \A i \in DOMAIN table : table[i].rank = i
        /\ \A i, j \in DOMAIN table :
              i < j =>
                \/ table[i].wins > table[j].wins
                \/ /\ table[i].wins = table[j].wins
                   /\ table[i].losses < table[j].losses
                \/ /\ table[i].wins = table[j].wins
                   /\ table[i].losses = table[j].losses
                   /\ \E a, b \in DOMAIN teamRows :
                        /\ a < b
                        /\ teamRows[a] = table[i].team_key
                        /\ teamRows[b] = table[j].team_key

\* Two matchups were read against the order of their weeks, the team rows
\* are not in the order of their keys, and two teams equal in wins are
\* told apart by their losses.
C10_Witness ==
    /\ through > 0
    /\ Len(matchRows) = 2
    /\ matchRows[1].week > matchRows[2].week
    /\ matchRows[1].week <= through
    /\ teamRows[1] > teamRows[2]
    /\ \E i, j \in DOMAIN table :
          /\ i < j
          /\ table[i].wins = table[j].wins
          /\ table[i].losses < table[j].losses

\* The matchups stored between the teams of managers a and b.
Between(a, b) ==
    {i \in DOMAIN arg.matchups :
        {arg.teams[arg.matchups[i].team_key_1],
         arg.teams[arg.matchups[i].team_key_2]} = {a, b}}

\* C11: the matrix of h2h_matrix is symmetric for any stored matchups: b
\* is a key of the row of a iff a is a key of the row of b, the wins of a
\* against b are the losses of b against a, the ties agree, no manager is
\* in its own row, and a pair is present iff the two managers met.
C11_Symmetric ==
    res.op = "h2h" =>
        /\ \A a \in DOMAIN res.matrix : \A b \in DOMAIN res.matrix[a] :
              /\ a # b
              /\ b \in DOMAIN res.matrix
              /\ a \in DOMAIN res.matrix[b]
              /\ res.matrix[a][b].wins = res.matrix[b][a].losses
              /\ res.matrix[a][b].ties = res.matrix[b][a].ties
        /\ \A a, b \in Guids :
              a # b =>
                ((a \in DOMAIN res.matrix /\ b \in DOMAIN res.matrix[a])
                    <=> Between(a, b) # {})

\* The results of a manager, in the order of the rows.
RECURSIVE ResultsOf(_, _)
ResultsOf(g, rows) ==
    IF rows = <<>> THEN <<>>
    ELSE LET r == rows[Len(rows)]
             one == IF r.is_tied = 1 THEN "T"
                    ELSE IF r.winner_team_key = r.team_key_1 THEN "W" ELSE "L"
             two == IF r.is_tied = 1 THEN "T"
                    ELSE IF r.winner_team_key = r.team_key_1 THEN "L" ELSE "W"
         IN  ResultsOf(g, SubSeq(rows, 1, Len(rows) - 1))
                \o (IF r.guid_1 = g THEN <<one>> ELSE <<>>)
                \o (IF r.guid_2 = g THEN <<two>> ELSE <<>>)

\* The length of the longest run of consecutive x in seq.
LongestRun(seq, x) ==
    LET runs == {<<i, j>> \in (DOMAIN seq) \X (DOMAIN seq) :
                    i <= j /\ \A k \in i..j : seq[k] = x}
    IN  IF runs = {} THEN 0
        ELSE CHOOSE n \in 1..Len(seq) :
                /\ \E p \in runs : p[2] - p[1] + 1 = n
                /\ \A p \in runs : p[2] - p[1] + 1 <= n

\* The number of results after the last loss.
SinceLoss(seq) ==
    LET losses == {i \in DOMAIN seq : seq[i] = "L"}
    IN  IF losses = {} THEN Len(seq)
        ELSE Len(seq) - (CHOOSE i \in losses : \A j \in losses : j <= i)

LongestOfAll(x) ==
    LET lens == {LongestRun(ResultsOf(g, arg.rows), x) : g \in Managers}
    IN  CHOOSE n \in lens : \A k \in lens : k <= n

FinishRows(g) ==
    {i \in DOMAIN arg.teams :
        arg.teams[i].manager_guid = g /\ arg.teams[i].finish # NoFinish}

\* C13: for every manager of managers(), championships is the number of
\* its team-seasons with stored finish 1 in a finished league, best_finish
\* the least and worst_finish the greatest stored finish; the three are
\* what an earlier call returned, whatever was done to the matchup rows
\* in between.
C13_StoredFinish ==
    res.op = "managers" =>
        /\ {res.list[i].guid : i \in DOMAIN res.list}
              = {arg.teams[i].manager_guid : i \in DOMAIN arg.teams}
        /\ \A i \in DOMAIN res.list :
              LET g == res.list[i].guid
                  fins == {arg.teams[k].finish : k \in FinishRows(g)}
              IN  /\ res.list[i].championships =
                        Cardinality({k \in FinishRows(g) :
                            /\ arg.teams[k].finish = 1
                            /\ arg.teams[k].is_finished = 1})
                  /\ res.list[i].best_finish =
                        IF fins = {} THEN NoFinish ELSE Min(fins)
                  /\ res.list[i].worst_finish =
                        IF fins = {} THEN NoFinish ELSE Max(fins)
        /\ \A i \in DOMAIN res.list :
              \E k \in DOMAIN res.list :
                 LET now == managers(arg.teams, arg.matchups)[k]
                 IN  /\ now.guid = res.list[i].guid
                     /\ now.championships = res.list[i].championships
                     /\ now.best_finish = res.list[i].best_finish
                     /\ now.worst_finish = res.list[i].worst_finish

\* A manager won a finished season and ended second in another, and the
\* matchup rows are no longer the ones of the call: the wins differ.
C13_Witness ==
    /\ res.op = "managers"
    /\ \E i \in DOMAIN res.list :
          /\ res.list[i].championships = 1
          /\ res.list[i].best_finish = 1
          /\ res.list[i].worst_finish = 2
    /\ \E i \in DOMAIN arg.teams :
          arg.teams[i].finish = 1 /\ arg.teams[i].is_finished = 0
    /\ {managers(arg.teams, arg.matchups)[k].wins : k \in DOMAIN res.list}
          # {res.list[k].wins : k \in DOMAIN res.list}


\* The franchise a keeper row belongs to: resolved from the manager of its
\* team and its season, or else the manager.
FranchiseOf(k) ==
    LET guid == arg.teams[<<k.season, k.team_key>>]
        f == resolve_franchise(arg.defs, guid, k.season)
    IN  IF f = NoFranchise THEN guid ELSE f

\* The seasons of the keeper rows of the group of row k.
GroupSeasons(k) ==
    {arg.keepers[j].season : j \in
        {j \in DOMAIN arg.keepers :
            /\ FranchiseOf(arg.keepers[j]) = FranchiseOf(k)
            /\ arg.keepers[j].player_key[2] = k.player_key[2]}}

\* The first season of the maximal run of consecutive seasons of S with y.
FirstOfRun(S, y) == Min({s \in S : s <= y /\ \A t \in s..y : t \in S})

\* C14: after _compute_kept_from_season every keeper row's kept_from_season
\* is the first season of the maximal run of consecutive seasons, holding
\* the row's season, of the rows of its franchise and player.
C14_Lineage ==
    res.op = "lineage" =>
        \A id \in DOMAIN arg.keepers :
            arg.keepers[id].kept_from_season
                = FirstOfRun(GroupSeasons(arg.keepers[id]), arg.keepers[id].season)

\* One player kept in seasons 1, 2 and 4 by one franchise, under two
\* managers and two team numbers: the values are 1, 1 and 4.
C14_Witness ==
    /\ res.op = "lineage"
    /\ \E p \in Players :
          LET id(s) == (s - 1) * NumPlayers + p
          IN  /\ {id(1), id(2), id(4)} \subseteq DOMAIN arg.keepers
              /\ id(3) \notin DOMAIN arg.keepers
              /\ FranchiseOf(arg.keepers[id(1)]) = FranchiseId(0)
              /\ FranchiseOf(arg.keepers[id(2)]) = FranchiseId(0)
              /\ FranchiseOf(arg.keepers[id(4)]) = FranchiseId(0)
              /\ arg.keepers[id(1)].team_key # arg.keepers[id(2)].team_key
              /\ arg.teams[<<1, arg.keepers[id(1)].team_key>>]
                    # arg.teams[<<2, arg.keepers[id(2)].team_key>>]
              /\ arg.keepers[id(1)].kept_from_season = 1
              /\ arg.keepers[id(2)].kept_from_season = 1
              /\ arg.keepers[id(4)].kept_from_season = 4

\* The pick numbers of the picks of player p.
PicksOf(p) == {n \in DOMAIN arg.picks : arg.picks[n].player_key = p}

\* The place of pick n among the picks of its team, from 1.
IndexInTeam(n) ==
    Cardinality({m \in DOMAIN arg.picks :
                    arg.picks[m].team_key = arg.picks[n].team_key /\ m <= n})

\* Some team dropped player p in the league at some time.
EverDropped(p) ==
    \E t \in arg.txns :
        t.player_key = p /\ t.type = "drop" /\ t.league_key = Latest

\* C15: every player of the roster has one row; its draft_cost is 24 if
\* the player has no draft pick in the league or a drop of the player
\* exists in the league, and else the index of the player's pick among the
\* picks of the team that drafted the player.
C15_DraftCost ==
    res.op = "cost" =>
        /\ {r.player_key : r \in res.rows} = arg.roster
        /\ Cardinality(res.rows) = Cardinality(arg.roster)
        /\ \A r \in res.rows :
              r.draft_cost =
                  IF PicksOf(r.player_key) = {} \/ EverDropped(r.player_key)
                  THEN SentinelCost
                  ELSE IndexInTeam(CHOOSE n \in PicksOf(r.player_key) : TRUE)

\* A player on the roster of team 1 whom team 2 drafted as its second pick
\* and who was dropped and added again costs 24, next to a player kept
\* since the draft who costs the pick index.
C15_Witness ==
    /\ res.op = "cost"
    /\ \E p \in arg.roster, n \in DOMAIN arg.picks :
          /\ arg.picks[n].player_key = p
          /\ arg.picks[n].team_key = 2
          /\ IndexInTeam(n) = 2
          /\ [league_key |-> Latest, player_key |-> p, type |-> "drop"] \in arg.txns
          /\ [league_key |-> Latest, player_key |-> p, type |-> "add"] \in arg.txns
          /\ [player_key |-> p, draft_cost |-> SentinelCost] \in res.rows
    /\ \E r \in res.rows : r.draft_cost # SentinelCost

\* C16: with two qualifying starters, of values 10 and 20 in a category
\* where higher is better, the z-scores are -1.00 and +1.00, in hundredths
\* -100 and 100, and sum to 0.
C16_ZScore ==
    (/\ res.op = "rank"
     /\ arg.sort_order = 1
     /\ {arg.roster[p].value : p \in player_stats(arg.roster)} = {10, 20}
     /\ Cardinality(player_stats(arg.roster)) = 2)
    => /\ Len(res.list) = 2
       /\ \A i \in DOMAIN res.list :
             res.list[i].z_score = IF res.list[i].stat_line = 10 THEN -100 ELSE 100

\* C16, amended: the two z-scores are the deviations from the mean 15
\* divided by the sample standard deviation (about 7.07), -0.71 and +0.71,
\* and sum to 0.
C16_SampleZ ==
    (/\ res.op = "rank"
     /\ arg.sort_order = 1
     /\ {arg.roster[p].value : p \in player_stats(arg.roster)} = {10, 20}
     /\ Cardinality(player_stats(arg.roster)) = 2)
    => /\ Len(res.list) = 2
       /\ res.list[1].stat_line = 20 /\ res.list[1].z_score = 71
       /\ res.list[2].stat_line = 10 /\ res.list[2].z_score = -71
       /\ res.list[1].z_score + res.list[2].z_score = 0

\* Two starters of values 10 and 20 were ranked where higher is better,
\* next to a roster row that does not qualify.
C16_Witness ==
    /\ res.op = "rank"
    /\ arg.sort_order = 1
    /\ Cardinality(player_stats(arg.roster)) = 2
    /\ {arg.roster[p].value : p \in player_stats(arg.roster)} = {10, 20}
    /\ Len(res.list) = 2

\* A store but for its sync_log.
Data(s) == [league |-> s.league, rows |-> s.rows, txweek |-> s.txweek]

\* The committed store when the attempt has run to its end.
Attempted == ApplyAll(Apply(arg.base, [t |-> "logstart", key |-> arg.key]), arg.ws)

\* C17: wherever the process stops while a unit executes, the committed
\* store either holds nothing the attempt wrote, with the unit's log row
\* not 'completed', or holds everything the attempt wrote, with the log row
\* 'completed'.
C17_CrashAtomic ==
    res.op = "crashed" =>
        \/ /\ Data(db.disk) = Data(arg.base)
           /\ db.disk.log[arg.key].status # "completed"
        \/ /\ db.disk = Attempted
           /\ db.disk.log[arg.key].status = "completed"

\* The process stopped inside the scope of a unit after statements that
\* had written rows, with the log row 'running': the rows are gone.
C17_Witness ==
    /\ res.op = "crashed"
    /\ res.phase = "scope"
    /\ res.at > 1
    /\ res.lost
    /\ Data(Attempted) # Data(arg.base)
    /\ db.disk.log[arg.key].status = "running"

\* C18: in every sync operation a delay is executed between any two
\* consecutive calls to the source, whether the earlier call returned or
\* raised: no call follows a call directly.
C18_Throttled == res.op = "trace" => ~res.close

\* The weeks of the matchup rows of the league in the committed store, and
\* those of the rows flagged playoff or consolation.
StoredWeeks == {x[3] : x \in {y \in db.disk.rows : y[1] = "matchup" /\ y[2] = Latest}}

FlaggedWeeks ==
    {x[3] : x \in {y \in db.disk.rows :
                      y[1] = "matchup" /\ y[2] = Latest /\ y[4] = 1}}

Repaired == db.disk.league[Latest]

\* C19: after _repair_league_weeks on a league with matchup rows,
\* start_week is the least and end_week the greatest week of the rows,
\* whatever was stored, so start_week <= end_week; without matchup rows
\* the league row is as it was.
C19_StartEnd ==
    res.op = "repair" =>
        /\ (StoredWeeks # {} /\ Repaired.present) =>
              /\ \A w \in StoredWeeks : Repaired.start_week <= w /\ w <= Repaired.end_week
              /\ Repaired.start_week \in StoredWeeks
              /\ Repaired.end_week \in StoredWeeks
              /\ Repaired.start_week <= Repaired.end_week
        /\ StoredWeeks = {} => Repaired = res.before

\* A league row stored with start and end swapped and too large was
\* repaired to the weeks of its matchups.
C19_Witness ==
    /\ res.op = "repair"
    /\ res.before.present
    /\ res.before.start_week > res.before.end_week
    /\ res.before.start_week > MaxWeek
    /\ Cardinality(StoredWeeks) > 1
    /\ Repaired.start_week < Repaired.end_week
    /\ Repaired.end_week # res.before.end_week

\* C20: after _repair_league_weeks on a league with a matchup flagged
\* playoff or consolation, playoff_start_week is the least week of those
\* matchups, also where the stored start and end weeks were right already.
C20_PlayoffStart ==
    (res.op = "repair" /\ Repaired.present /\ FlaggedWeeks # {})
        => \A w \in FlaggedWeeks :
              /\ Repaired.playoff_start_week <= w
              /\ Repaired.playoff_start_week \in FlaggedWeeks

\* C21: in every committed store, after sync_metadata and after
\* _repair_league_weeks, a league row of a finished season has
\* current_week <= end_week and start_week <= end_week, whatever week data
\* the source reports.
C21_FinishedWeeks ==
    \A lg \in Leagues :
        (Disk.league[lg].present /\ Disk.league[lg].is_finished = 1) =>
            /\ Disk.league[lg].current_week <= Disk.league[lg].end_week
            /\ Disk.league[lg].start_week <= Disk.league[lg].end_week

\* The transactions the pass is about: NULL week and a timestamp.
Unassigned == {n \in DOMAIN res.before :
                  res.before[n].week = NullWeek /\ res.before[n].timestamp # NoDate}

\* The week the claim gives a transaction dated ts: the lowest week, among
\* the weeks S, whose end date is on or after ts, or the last week known.
LowestFrom(S, ts) ==
    LET ok == {w \in S : arg.weeks[w].week_end # NoDate /\ ts <= arg.weeks[w].week_end}
    IN  IF ok # {} THEN Min(ok) ELSE Max(DOMAIN arg.weeks)

\* C22 as claimed: after _backfill_transaction_weeks on a league with a
\* matchup week, a transaction that had a NULL week and a timestamp has
\* the lowest week whose end date is on or after its date, or the last
\* week known; the other transactions are as they were.
C22_Backfill ==
    (res.op = "backfill" /\ DOMAIN arg.weeks # {}) =>
        \A n \in DOMAIN arg.txns :
            IF n \in Unassigned
            THEN arg.txns[n] = [res.before[n] EXCEPT !.week =
                                   LowestFrom(DOMAIN arg.weeks, res.before[n].timestamp)]
            ELSE arg.txns[n] = res.before[n]

\* C22 as amended: the lowest week that has a start date and whose end
\* date is on or after the transaction's date, or the last week known.
C22_BackfillStarted ==
    (res.op = "backfill" /\ DOMAIN arg.weeks # {}) =>
        /\ DOMAIN arg.txns = DOMAIN res.before
        /\ \A n \in DOMAIN arg.txns :
            IF n \in Unassigned
            THEN arg.txns[n] = [res.before[n] EXCEPT !.week =
                                   LowestFrom({w \in DOMAIN arg.weeks :
                                                  arg.weeks[w].week_start # NoDate},
                                              res.before[n].timestamp)]
            ELSE arg.txns[n] = res.before[n]

\* A pass assigned a transaction to a week after the first week stored,
\* another to the last week because no week ends late enough, and left a
\* transaction alone whose week an earlier pass had set.
C22_Witness ==
    /\ res.op = "backfill"
    /\ DOMAIN arg.weeks # {}
    /\ \E n \in Unassigned :
          /\ arg.txns[n].week > Min(DOMAIN arg.weeks)
          /\ arg.txns[n].week \in DOMAIN arg.weeks
          /\ arg.txns[n].timestamp <= arg.weeks[arg.txns[n].week].week_end
    /\ \E n \in Unassigned :
          \A w \in DOMAIN arg.weeks : arg.weeks[w].week_end < arg.txns[n].timestamp
    /\ \E n \in DOMAIN res.before :
          /\ res.before[n].week # NullWeek
          /\ res.before[n].week # LowestFrom(DOMAIN arg.weeks, res.before[n].timestamp)

\* The value of a side as the claim reads it, from the input.
Value(t, sid) == IF arg.stats[t] = <<>> THEN NoValue ELSE arg.stats[t][sid]

\* The side whose value beats the other's in the order of the category.
Better(sid) ==
    LET a == Value(1, sid)
        b == Value(2, sid)
    IN  IF a = b THEN NoWinner
        ELSE IF arg.cats[sid].sort_order = 1 THEN (IF a > b THEN 1 ELSE 2)
        ELSE (IF a < b THEN 1 ELSE 2)

\* C23 as claimed: one row for each scoring category and none for the
\* others; the winner is the side with the greater value where the sort
\* order is 1, with the smaller where it is 0, and null exactly when the
\* two values are equal.
C23_Categories ==
    res.op = "category" =>
        /\ DOMAIN res.rows = {sid \in Cats : arg.cats[sid].is_scoring = 1}
        /\ \A sid \in DOMAIN res.rows :
              /\ res.rows[sid].winner = NoWinner <=> Value(1, sid) = Value(2, sid)
              /\ res.rows[sid].winner # NoWinner => res.rows[sid].winner = Better(sid)

IsNumber(v) == v \notin {NoValue, TextValue}

\* C23 as amended: the winner is null when the two values are equal and
\* also when a value is missing or is not a number; otherwise it is the
\* side whose value is better in the order of the category, so the rows a
\* side wins are the categories where both values are numbers and its own
\* beats the other's.
C23_CategoriesNumeric ==
    res.op = "category" =>
        /\ DOMAIN res.rows = {sid \in Cats : arg.cats[sid].is_scoring = 1}
        /\ \A sid \in DOMAIN res.rows :
              /\ res.rows[sid].v1 = Value(1, sid)
              /\ res.rows[sid].v2 = Value(2, sid)
              /\ res.rows[sid].winner =
                    IF IsNumber(Value(1, sid)) /\ IsNumber(Value(2, sid))
                    THEN Better(sid) ELSE NoWinner
        /\ \A t \in {1, 2} :
              Cardinality({sid \in DOMAIN res.rows : res.rows[sid].winner = t})
                  = Cardinality({sid \in Cats :
                        /\ arg.cats[sid].is_scoring = 1
                        /\ IsNumber(Value(1, sid)) /\ IsNumber(Value(2, sid))
                        /\ Better(sid) = t})

\* Two scoring categories, one where lower is better won by the smaller
\* value and one where higher is better won by the greater.
C23_Witness ==
    /\ res.op = "category"
    /\ DOMAIN res.rows = Cats
    /\ \E a, b \in Cats :
          /\ arg.cats[a].sort_order = 0 /\ arg.cats[b].sort_order = 1
          /\ res.rows[a].winner = 1 /\ res.rows[a].v1 < res.rows[a].v2
          /\ IsNumber(res.rows[a].v1)
          /\ res.rows[b].winner = 2 /\ res.rows[b].v2 > res.rows[b].v1
          /\ IsNumber(res.rows[b].v1)

\* The picks of a team and the index of a player among them.
OwnPicks(t) == {i \in DOMAIN arg.picks : arg.picks[i] = t}

OwnIndex(p) == Cardinality({j \in OwnPicks(arg.picks[p]) : j <= p})

\* C24: after the keepers unit every keeper row has round_cost = the index
\* of the player among the picks of the keeper's team, or the sentinel 24
\* when that team did not draft the player; no round_cost is left null.
C24_RoundCost ==
    res.op = "keepers" =>
        \A p \in DOMAIN res.keeper :
            /\ res.keeper[p].round_cost # NullCost
            /\ res.keeper[p].round_cost =
                  IF p \in DOMAIN arg.picks /\ arg.picks[p] = res.keeper[p].team_key
                  THEN OwnIndex(p) ELSE SentinelCost

\* The first and the last KeepersPerTeam picks of a team.
FirstBand(t) == {i \in OwnPicks(t) : OwnIndex(i) <= KeepersPerTeam}

LastBand(t) == {i \in OwnPicks(t) : OwnIndex(i) > Cardinality(OwnPicks(t)) - KeepersPerTeam}

\* The flagged keepers among the picks of a band.
FlaggedIn(band) == Cardinality({i \in DOMAIN arg.picks : i \in DOMAIN res.before /\ i \in band})

\* C25: the fallback is applied only for basketball and adds rows only when
\* the number F of flagged keepers has 0 < F < num_teams * keepers_per_team;
\* the mode is first-N when the flagged keepers among the first N picks of
\* the teams are at least as many as those among the last N, last-N
\* otherwise; afterwards every pick of every team in the detected band is a
\* keeper row, the count returned is the number of rows added and no flagged
\* row is removed or changed.
C25_Fallback ==
    res.op = "keepers" =>
        LET F == Cardinality(DOMAIN res.before)
            first == FlaggedIn(UNION {FirstBand(t) : t \in Teams})
            last == FlaggedIn(UNION {LastBand(t) : t \in Teams})
        IN  /\ arg.sport # "nba" => res.fallback = res.before /\ res.added = 0
            /\ res.added > 0 => 0 < F /\ F < NumTeams * KeepersPerTeam
            /\ res.mode \in {"first", "last"} =>
                  /\ res.mode = "first" <=> first >= last
                  /\ \A t \in Teams :
                        (IF res.mode = "first" THEN FirstBand(t) ELSE LastBand(t))
                            \subseteq DOMAIN res.fallback
            /\ res.added = Cardinality(DOMAIN res.fallback \ DOMAIN res.before)
            /\ \A p \in DOMAIN res.before :
                  p \in DOMAIN res.fallback /\ res.fallback[p] = res.before[p]

\* The season's answer was fetched and every rank in it is a number or absent.
Written(lg) ==
    /\ res.answers[lg].ok
    /\ \A t \in Teams : res.answers[lg].teams[t].rank # TextValue

\* C26: a run of sync_standings changes only finish and playoff_seed of
\* team rows that exist: no team row is inserted or deleted, no other team
\* column and no league, matchup or sync_log row changes; a season whose
\* fetch (or whose conversion of a rank) fails keeps its team rows, and
\* every other season's rows get the standings of the source.
C26_StandingsFrame ==
    res.op = "standings" =>
        LET b == res.before.disk
            a == arg.db.disk
        IN  /\ arg.db.conn = a /\ ~arg.db.in_transaction
            /\ a.league = b.league /\ a.log = b.log
            /\ a.rows = b.rows /\ a.txweek = b.txweek
            /\ \A k \in Leagues \X Teams :
                  /\ a.team[k].present = b.team[k].present
                  /\ a.team[k].present => a.team[k].name = b.team[k].name
            /\ \A lg \in Leagues, t \in Teams :
                  IF Written(lg) /\ res.answers[lg].teams[t].ts /\ b.team[<<lg, t>>].present
                  THEN /\ a.team[<<lg, t>>].finish = res.answers[lg].teams[t].rank
                       /\ a.team[<<lg, t>>].playoff_seed = res.answers[lg].teams[t].seed
                  ELSE a.team[<<lg, t>>] = b.team[<<lg, t>>]

\* The fetch of the first season failed and the second season's standings
\* changed the finish of a team row.
C26_Witness ==
    /\ res.op = "standings"
    /\ ~res.answers[1].ok
    /\ \E t \in Teams : res.before.disk.team[<<1, t>>].present
    /\ \E t \in Teams :
          /\ res.before.disk.team[<<2, t>>].present
          /\ arg.db.disk.team[<<2, t>>].finish = 1
          /\ res.before.disk.team[<<2, t>>].finish # 1

\* C27: for a season in progress whose source reports current week c, in
\* any sequence of sync_season and sync_incremental runs the weekly unit is
\* executed only for weeks < c, no week >= c has a 'completed' weekly
\* sync_log row and the stored current_week is never above c.
C27_CompletedWeeksOnly ==
    src.is_finished = 0 =>
        /\ (ev.unit = "weekly" /\ ev.outcome # "skip") => ev.week < src.current_week
        /\ \A w \in Weeks :
              w >= src.current_week =>
                  db.disk.log[LogKey(Latest, "weekly", w)].status # "completed"
        /\ db.disk.league[Latest].present =>
              db.disk.league[Latest].current_week <= src.current_week

\* C28: after _repair_league_weeks stopped at any point and the repair ran
\* again to its end, the league row is the one a repair that was not
\* stopped would have produced.
C28_RepairResumes ==
    res.op = "resume" =>
        db.disk.league[Latest] = _repair_league_weeks(arg.start, Latest).disk.league[Latest]

CountedFor(owner) ==
    LET InSpan(t) == ~(t.season < owner.from) /\ ~(owner.to # NoTo /\ t.season > owner.to)
        list == managers(SelectSeq(arg.teams, InSpan), <<>>)
        hit == {i \in DOMAIN list : list[i].guid = owner.guid}
    IN  IF hit = {} THEN 0 ELSE list[CHOOSE i \in hit : TRUE].championships

RECURSIVE SumCounted(_, _)
SumCounted(owners, j) ==
    IF j > Len(owners) THEN 0 ELSE CountedFor(owners[j]) + SumCounted(owners, j + 1)

\* C30: the championships of every franchise of franchise_stats are the sum,
\* over its ownership entries, of the championships managers() counts for
\* the owning manager in the seasons of the entry; a rank 1 in a season
\* that is not finished counts for neither.
C30_Championships ==
    res.op = "franchise" =>
        \A i \in DOMAIN res.list :
            res.list[i].championships = SumCounted(arg.defs[i].managers, 1)

====
